---- MODULE Spec2Model ----
(***************************************************************************)
(* Contributor-quality scoring: the metric normalizers, the spam detector, *)
(* the decay function and the composer of src/src/scoring/engine.ts.       *)
(*                                                                         *)
(* The scoring code is a library of pure functions.  The state of the      *)
(* model is the call in progress: which function was called (fn), with     *)
(* which arguments (args), and what it returned (ret).  Every function has *)
(* one action that draws its arguments from a bounded set and applies the  *)
(* function as the source computes it.                                     *)
(*                                                                         *)
(* Numbers.  The source computes in IEEE doubles; the model computes in    *)
(* exact rationals <<n, d>> (d > 0, lowest terms).  Ratios of small counts *)
(* compared with decimal literals (0.9, 0.7, ...) order exactly as in the  *)
(* source, because a correctly rounded quotient of two small integers is   *)
(* never on the wrong side of such a literal.                              *)
(***************************************************************************)
EXTENDS Integers, Sequences, FiniteSets, TLC

VARIABLES fn, args, ret

vars == <<fn, args, ret>>

----------------------------------------------------------------------------
(* Rational arithmetic *)

Abs(x) == IF x < 0 THEN -x ELSE x

RECURSIVE GCD(_, _)
GCD(a, b) == IF b = 0 THEN a ELSE GCD(b, a % b)

\* the rational n/d in lowest terms with a positive denominator
R(n, d) ==
    LET s == IF d < 0 THEN -1 ELSE 1
        g == GCD(Abs(n), Abs(d))
    IN  <<(s * n) \div g, (s * d) \div g>>

RI(i) == <<i, 1>>

RAdd(a, b) == R(a[1] * b[2] + b[1] * a[2], a[2] * b[2])
RSub(a, b) == R(a[1] * b[2] - b[1] * a[2], a[2] * b[2])
RMul(a, b) == R(a[1] * b[1], a[2] * b[2])
RDiv(a, b) == R(a[1] * b[2], a[2] * b[1])
RLt(a, b)  == a[1] * b[2] < b[1] * a[2]
RLeq(a, b) == a[1] * b[2] <= b[1] * a[2]
RGeq(a, b) == RLeq(b, a)
RGt(a, b)  == RLt(b, a)
RMin(a, b) == IF RLeq(a, b) THEN a ELSE b
RMax(a, b) == IF RGeq(a, b) THEN a ELSE b
RIsInt(a)  == a[2] = 1

\* Math.round: the nearest integer, halves rounded toward +infinity
MathRound(a) == (2 * a[1] + a[2]) \div (2 * a[2])

\* Math.ceil of the quotient of two naturals
CeilDiv(n, d) == (n + d - 1) \div d

RECURSIVE SumSeq(_)
SumSeq(s) == IF s = <<>> THEN RI(0) ELSE RAdd(s[1], SumSeq(Tail(s)))

RECURSIVE SumInts(_)
SumInts(s) == IF s = <<>> THEN 0 ELSE s[1] + SumInts(Tail(s))

----------------------------------------------------------------------------
(* Bounds of the model *)

\* largest number of pull requests in a contributor's data
MaxPRs == 16
\* largest number of distinct repositories with merged pull requests
MaxRepos == 11
\* largest number of reactions on a contributor's comments
MaxReactions == 10
\* largest number of issues in a contributor's data
MaxIssues == 4
\* largest number of code reviews given
MaxReviews == 21
\* largest number of calendar months with activity
MaxActiveMonths == 13

\* largest number of merged-PR dates handed to the decay function
MaxDates == 4
\* longest list of spam penalties handed to calculateSpamPenalty
MaxPenalties == 4

\* largest number of attempts executeWithRetry is configured with
MaxAttempts == 3

\* weights a metric is called with, as rationals (hundredths)
WeightSet == { R(w, 100) : w \in {0, 10, 15, 20, 25, 100} }

\* account ages in days, on both sides of every threshold of the source
AgeSet == { 0, 1, 5, 6, 7, 29, 30, 31, 60, 89, 90, 91, 179, 180, 181, 364, 365, 400 }

\* the day the run happens (the value of new Date())
NowDay == 1000

----------------------------------------------------------------------------
(* Scoring constants, src/src/types/scoring.ts *)

BASELINE_SCORE == 500
MAX_SCORE == 1000
MIN_SCORE == 0
MIN_DECAY_FACTOR == R(8, 10)
MAX_DECAY_FACTOR == RI(1)
MIN_CONTRIBUTIONS_FOR_DATA == 5

----------------------------------------------------------------------------
(* Raw contributor data (GraphQLContributorData.user).  A Date is a day     *)
(* number; a calendar month is taken as 30 days, so setMonth(getMonth()-k)  *)
(* is SubMonths and the year-month key of a calendar day is MonthOf.  A     *)
(* null mergedAt is Null, a null repository is NullRepo.                    *)

Null == -1
NullRepo == [owner |-> "", name |-> Null, stargazerCount |-> Null]

SubMonths(date, k) == date - 30 * k
MonthOf(date) == date \div 30

\* Array.prototype.filter(...).length
Count(seq, Test(_)) == Len(SelectSeq(seq, Test))

\* Array.prototype.map
MapSeq(seq, F(_)) == [i \in 1..Len(seq) |-> F(seq[i])]

RECURSIVE Flatten(_)
Flatten(seqs) == IF seqs = <<>> THEN <<>> ELSE seqs[1] \o Flatten(Tail(seqs))

\* src/metrics/pr-history.ts VERY_SHORT_PR_THRESHOLD
VERY_SHORT_PR_THRESHOLD == 10

\* src/metrics/pr-history.ts extractPRHistoryData
extractPRHistoryData(data, sinceDate) ==
    LET InWindow(pr) == pr.createdAt >= sinceDate
        prs == SelectSeq(data.pullRequests, InWindow)
        IsMerged(pr) == pr.merged
        IsClosed(pr) == pr.state = "CLOSED" /\ ~pr.merged
        IsOpen(pr) == pr.state = "OPEN"
        IsShort(pr) == pr.additions + pr.deletions < VERY_SHORT_PR_THRESHOLD
        HasMergedAt(pr) == pr.mergedAt # Null
        Lines(pr) == pr.additions + pr.deletions
        MergedAt(pr) == pr.mergedAt
        mergedPRs == SelectSeq(prs, IsMerged)
        closedWithoutMerge == SelectSeq(prs, IsClosed)
        openPRs == SelectSeq(prs, IsOpen)
        totalLines == SumInts(MapSeq(prs, Lines))
        resolvedPRs == Len(mergedPRs) + Len(closedWithoutMerge)
    IN  [ totalPRs           |-> Len(prs),
          mergedPRs          |-> Len(mergedPRs),
          closedWithoutMerge |-> Len(closedWithoutMerge),
          openPRs            |-> Len(openPRs),
          mergeRate          |-> IF resolvedPRs > 0
                                 THEN R(Len(mergedPRs), resolvedPRs) ELSE RI(0),
          averagePRSize      |-> IF Len(prs) > 0 THEN R(totalLines, Len(prs))
                                 ELSE RI(0),
          veryShortPRs       |-> Count(prs, IsShort),
          mergedPRDates      |-> MapSeq(SelectSeq(mergedPRs, HasMergedAt), MergedAt) ]

\* the repoMap loop of extractRepoQualityData: one entry per owner/name in
\* first-seen order, its stars set when the entry is created
RECURSIVE GroupRepos(_, _)
GroupRepos(prs, repoMap) ==
    IF prs = <<>> THEN repoMap
    ELSE LET pr == prs[1]
             Same(r) == r.owner = pr.repository.owner /\ r.repo = pr.repository.name
             known == \E i \in 1..Len(repoMap) : Same(repoMap[i])
             withKey ==
                 IF known THEN repoMap
                 ELSE Append(repoMap, [ owner         |-> pr.repository.owner,
                                        repo          |-> pr.repository.name,
                                        stars         |-> pr.repository.stargazerCount,
                                        mergedPRCount |-> 0 ])
             counted ==
                 [ i \in 1..Len(withKey) |->
                     IF Same(withKey[i])
                     THEN [withKey[i] EXCEPT !.mergedPRCount = @ + 1]
                     ELSE withKey[i] ]
         IN  IF pr.repository = NullRepo
             THEN GroupRepos(Tail(prs), repoMap)
             ELSE GroupRepos(Tail(prs), counted)

RECURSIVE MaxInts(_)
MaxInts(s) ==
    IF Len(s) = 1 THEN s[1]
    ELSE LET m == MaxInts(Tail(s)) IN IF s[1] >= m THEN s[1] ELSE m

\* src/unnamed/part_002 extractRepoQualityData
extractRepoQualityData(data, minimumStars, sinceDate) ==
    LET Kept(pr) ==
            /\ pr.merged /\ pr.mergedAt # Null
            /\ pr.repository # NullRepo
            /\ pr.mergedAt >= sinceDate
        mergedPRs == SelectSeq(data.pullRequests, Kept)
        contributedRepos == GroupRepos(mergedPRs, <<>>)
        IsQuality(r) == r.stars >= minimumStars
        Stars(r) == r.stars
        totalStars == SumInts(MapSeq(contributedRepos, Stars))
    IN  [ contributedRepos |-> contributedRepos,
          qualityRepoCount |-> Count(contributedRepos, IsQuality),
          averageRepoStars |-> IF Len(contributedRepos) > 0
                               THEN R(totalStars, Len(contributedRepos)) ELSE RI(0),
          highestStarRepo  |-> IF Len(contributedRepos) > 0
                               THEN MaxInts(MapSeq(contributedRepos, Stars)) ELSE 0 ]

\* src/src/types/metrics.ts POSITIVE_REACTIONS, NEGATIVE_REACTIONS
POSITIVE_REACTIONS == {"+1", "heart", "rocket", "hooray"}
NEGATIVE_REACTIONS == {"-1", "confused"}

\* src/metrics/reactions.ts extractReactionData
extractReactionData(data) ==
    LET comments == data.issueComments
        Reactions(comment) == comment.reactions
        all == Flatten(MapSeq(comments, Reactions))
        IsPositive(content) == content \in POSITIVE_REACTIONS
        IsNegative(content) ==
            content \notin POSITIVE_REACTIONS /\ content \in NEGATIVE_REACTIONS
        IsNeutral(content) ==
            content \notin POSITIVE_REACTIONS /\ content \notin NEGATIVE_REACTIONS
        positiveCount == Count(all, IsPositive)
        negativeCount == Count(all, IsNegative)
        neutralCount == Count(all, IsNeutral)
        totalReactions == positiveCount + negativeCount + neutralCount
    IN  [ totalComments     |-> Len(comments),
          positiveReactions |-> positiveCount,
          negativeReactions |-> negativeCount,
          neutralReactions  |-> neutralCount,
          positiveRatio     |-> IF totalReactions > 0
                                THEN R(positiveCount, totalReactions) ELSE R(1, 2) ]

\* src/unnamed/part_004 extractAccountData; now is the value of new Date()
extractAccountData(data, analysisWindowMonths, now) ==
    LET createdAt == data.createdAt
        ageInDays == now - createdAt
        days == Flatten(data.calendarWeeks)
        monthsWithActivity ==
            { MonthOf(days[i].date) : i \in { j \in 1..Len(days) :
                                                days[j].contributionCount > 0 } }
        totalMonthsInWindow ==
            IF analysisWindowMonths <= 12 THEN analysisWindowMonths ELSE 12
        activeMonths == Cardinality(monthsWithActivity)
    IN  [ createdAt           |-> createdAt,
          ageInDays           |-> ageInDays,
          monthsWithActivity  |-> activeMonths,
          totalMonthsInWindow |-> totalMonthsInWindow,
          consistencyScore    |-> IF totalMonthsInWindow > 0
                                  THEN R(activeMonths, totalMonthsInWindow)
                                  ELSE RI(0) ]

\* src/metrics/issue-engagement.ts extractIssueEngagementData
extractIssueEngagementData(data, sinceDate) ==
    LET InWindow(issue) == issue.createdAt >= sinceDate
        issues == SelectSeq(data.issues, InWindow)
        HasComments(issue) == issue.comments > 0
        HasReactions(issue) == issue.reactions > 0
        Comments(issue) == issue.comments
        totalComments == SumInts(MapSeq(issues, Comments))
    IN  [ issuesCreated           |-> Len(issues),
          issuesWithComments      |-> Count(issues, HasComments),
          issuesWithReactions     |-> Count(issues, HasReactions),
          averageCommentsPerIssue |-> IF Len(issues) > 0
                                      THEN R(totalComments, Len(issues)) ELSE RI(0) ]

\* src/unnamed/part_003 extractCodeReviewData
extractCodeReviewData(data) ==
    [ reviewsGiven        |-> data.reviewCount,
      reviewCommentsGiven |-> data.reviewCount \div 2,
      reviewedRepos       |-> <<>> ]

\* src/src/scoring/engine.ts extractAllMetrics
extractAllMetrics(data, config, sinceDate, now) ==
    [ prHistory       |-> extractPRHistoryData(data, sinceDate),
      repoQuality     |-> extractRepoQualityData(data, config.minimumStars, sinceDate),
      reactions       |-> extractReactionData(data),
      account         |-> extractAccountData(data, config.analysisWindowMonths, now),
      issueEngagement |-> extractIssueEngagementData(data, sinceDate),
      codeReviews     |-> extractCodeReviewData(data) ]

----------------------------------------------------------------------------
(* Metric normalizers.  A MetricResult's details string is kept as the     *)
(* sequence of its message templates, without the interpolated numbers.    *)

MetricResult(name, rawValue, normalizedScore, weightedScore, weight, details,
             dataPoints) ==
    [ name            |-> name,
      rawValue        |-> rawValue,
      normalizedScore |-> normalizedScore,
      weightedScore   |-> weightedScore,
      weight          |-> weight,
      details         |-> details,
      dataPoints      |-> dataPoints ]

\* calculatePRHistoryMetric without its neutral zone: below 0.7 the score
\* falls linearly to 0
calculatePRHistoryMetric_NoNeutralZone(data, weight) ==
    IF data.totalPRs = 0
    THEN MetricResult("prMergeRate", RI(0), RI(50), RMul(RI(50), weight), weight,
                      <<"No PR history found in analysis window">>, 0)
    ELSE LET mergeRate == data.mergeRate
             normalizedScore ==
                 IF RGeq(mergeRate, R(9, 10)) THEN RI(100)
                 ELSE IF RGeq(mergeRate, R(7, 10))
                 THEN RAdd(RI(50),
                           RMul(RDiv(RSub(mergeRate, R(7, 10)), R(2, 10)), RI(50)))
                 ELSE RMul(RDiv(mergeRate, R(7, 10)), RI(50))
         IN  MetricResult("prMergeRate", mergeRate, normalizedScore,
                          RMul(normalizedScore, weight), weight, <<"Low merge rate">>,
                          data.totalPRs)

\* src/metrics/pr-history.ts calculatePRHistoryMetric
calculatePRHistoryMetric(data, weight) ==
    IF data.totalPRs = 0
    THEN MetricResult("prMergeRate", RI(0), RI(50), RMul(RI(50), weight), weight,
                      <<"No PR history found in analysis window">>, 0)
    ELSE LET mergeRate == data.mergeRate
             normalizedScore ==
                 IF RGeq(mergeRate, R(9, 10)) THEN RI(100)
                 ELSE IF RGeq(mergeRate, R(7, 10))
                 THEN RAdd(RI(50),
                           RMul(RDiv(RSub(mergeRate, R(7, 10)), R(2, 10)), RI(50)))
                 ELSE IF RGeq(mergeRate, R(3, 10)) THEN RI(50)
                 ELSE RMul(RDiv(mergeRate, R(3, 10)), RI(50))
             details ==
                 IF RGeq(mergeRate, R(9, 10)) THEN <<"Excellent merge rate">>
                 ELSE IF RGeq(mergeRate, R(7, 10)) THEN <<"Good merge rate">>
                 ELSE IF RGeq(mergeRate, R(3, 10)) THEN <<"Average merge rate">>
                 ELSE <<"Low merge rate">>
         IN  MetricResult("prMergeRate", mergeRate, normalizedScore, RMul(normalizedScore, weight), weight,
                          details, data.totalPRs)

\* src/unnamed/part_002 calculateRepoQualityMetric
calculateRepoQualityMetric(data, weight, minimumStars) ==
    LET qualityCount == data.qualityRepoCount
        normalizedScore ==
            IF qualityCount = 0 THEN RI(50)
            ELSE IF qualityCount >= 10 THEN RI(100)
            ELSE IF qualityCount >= 5 THEN RI(75)
            ELSE IF qualityCount >= 2 THEN RI(65)
            ELSE RI(55)
        base ==
            IF qualityCount = 0
            THEN IF Len(data.contributedRepos) = 0
                 THEN <<"No merged PRs found in analysis window">>
                 ELSE <<"Contributed to repos, none with minimum stars">>
            ELSE IF qualityCount >= 10 THEN <<"Excellent">>
            ELSE IF qualityCount >= 5 THEN <<"Good">>
            ELSE IF qualityCount >= 2 THEN <<"Moderate">>
            ELSE <<"Some quality contributions">>
        details ==
            IF data.highestStarRepo >= 1000 THEN Append(base, "Highest") ELSE base
    IN  MetricResult("repoQuality", RI(qualityCount), normalizedScore, RMul(normalizedScore, weight), weight,
                     details, Len(data.contributedRepos))

\* calculatePositiveReactionsMetric without its check for fewer than five
\* reactions
calculatePositiveReactionsMetric_NoMinimum(data, weight) ==
    LET totalReactions ==
            data.positiveReactions + data.negativeReactions + data.neutralReactions
        positiveRatio == data.positiveRatio
        normalizedScore ==
            IF RGeq(positiveRatio, R(8, 10)) THEN RI(100)
            ELSE IF RGeq(positiveRatio, R(6, 10)) THEN RI(75)
            ELSE IF RGeq(positiveRatio, R(4, 10)) THEN RI(50)
            ELSE RMul(RDiv(positiveRatio, R(4, 10)), RI(50))
    IN  MetricResult("positiveReactions", positiveRatio, normalizedScore,
                     RMul(normalizedScore, weight), weight, <<"Poor reception">>,
                     totalReactions)

\* src/metrics/reactions.ts calculatePositiveReactionsMetric
calculatePositiveReactionsMetric(data, weight) ==
    LET totalReactions ==
            data.positiveReactions + data.negativeReactions + data.neutralReactions
        positiveRatio == data.positiveRatio
        normalizedScore ==
            IF RGeq(positiveRatio, R(8, 10)) THEN RI(100)
            ELSE IF RGeq(positiveRatio, R(6, 10)) THEN RI(75)
            ELSE IF RGeq(positiveRatio, R(4, 10)) THEN RI(50)
            ELSE RMul(RDiv(positiveRatio, R(4, 10)), RI(50))
        details ==
            IF RGeq(positiveRatio, R(8, 10)) THEN <<"Excellent reception">>
            ELSE IF RGeq(positiveRatio, R(6, 10)) THEN <<"Good reception">>
            ELSE IF RGeq(positiveRatio, R(4, 10)) THEN <<"Mixed reception">>
            ELSE <<"Poor reception">>
    IN  IF totalReactions < 5
        THEN MetricResult("positiveReactions", data.positiveRatio, RI(50), RMul(RI(50), weight), weight,
                          <<"Insufficient reaction data">>, totalReactions)
        ELSE MetricResult("positiveReactions", positiveRatio, normalizedScore,
                          RMul(normalizedScore, weight), weight, details, totalReactions)

\* calculateNegativeReactionsMetric without the Math.max(0, ...) of its heavy
\* penalty
calculateNegativeReactionsMetric_NoFloor(data, weight) ==
    LET totalReactions ==
            data.positiveReactions + data.negativeReactions + data.neutralReactions
        negativeRatio == R(data.negativeReactions, totalReactions)
        normalizedScore ==
            IF RLt(negativeRatio, R(1, 10)) THEN RI(50)
            ELSE IF RLt(negativeRatio, R(2, 10)) THEN RI(40)
            ELSE IF RLt(negativeRatio, R(3, 10)) THEN RI(25)
            ELSE RSub(RI(25), RMul(RSub(negativeRatio, R(3, 10)), RI(100)))
    IN  IF totalReactions < 5
        THEN MetricResult("negativeReactions", RI(0), RI(50), RMul(RI(50), weight),
                          weight, <<"Insufficient reaction data for negative metric">>,
                          totalReactions)
        ELSE MetricResult("negativeReactions", negativeRatio, normalizedScore,
                          RMul(normalizedScore, weight), weight,
                          <<"High negative reactions">>, totalReactions)

\* src/metrics/reactions.ts calculateNegativeReactionsMetric
calculateNegativeReactionsMetric(data, weight) ==
    LET totalReactions ==
            data.positiveReactions + data.negativeReactions + data.neutralReactions
        negativeRatio ==
            IF totalReactions > 0 THEN R(data.negativeReactions, totalReactions)
            ELSE RI(0)
        normalizedScore ==
            IF RLt(negativeRatio, R(1, 10)) THEN RI(50)
            ELSE IF RLt(negativeRatio, R(2, 10)) THEN RI(40)
            ELSE IF RLt(negativeRatio, R(3, 10)) THEN RI(25)
            ELSE RMax(RI(0),
                      RSub(RI(25), RMul(RSub(negativeRatio, R(3, 10)), RI(100))))
        details ==
            IF RLt(negativeRatio, R(1, 10)) THEN <<"Low negative reactions">>
            ELSE IF RLt(negativeRatio, R(2, 10)) THEN <<"Some negative reactions">>
            ELSE IF RLt(negativeRatio, R(3, 10)) THEN <<"Notable negative reactions">>
            ELSE <<"High negative reactions">>
    IN  IF totalReactions < 5
        THEN MetricResult("negativeReactions", RI(0), RI(50), RMul(RI(50), weight), weight,
                          <<"Insufficient reaction data for negative metric">>,
                          totalReactions)
        ELSE MetricResult("negativeReactions", negativeRatio, normalizedScore,
                          RMul(normalizedScore, weight), weight, details, totalReactions)

\* calculateAccountAgeMetric without its top step for accounts of a year
calculateAccountAgeMetric_NoEstablished(data, weight) ==
    LET normalizedScore ==
            IF data.ageInDays >= 180 THEN RI(75)
            ELSE IF data.ageInDays >= 90 THEN RI(60)
            ELSE IF data.ageInDays >= 30 THEN RI(55)
            ELSE RI(50)
    IN  MetricResult("accountAge", RI(data.ageInDays), normalizedScore,
                     RMul(normalizedScore, weight), weight, <<"Mature account">>, 1)

\* src/unnamed/part_004 calculateAccountAgeMetric
calculateAccountAgeMetric(data, weight) ==
    LET normalizedScore ==
            IF data.ageInDays >= 365 THEN RI(100)
            ELSE IF data.ageInDays >= 180 THEN RI(75)
            ELSE IF data.ageInDays >= 90 THEN RI(60)
            ELSE IF data.ageInDays >= 30 THEN RI(55)
            ELSE RI(50)
        details ==
            IF data.ageInDays >= 365 THEN <<"Established account">>
            ELSE IF data.ageInDays >= 180 THEN <<"Mature account">>
            ELSE IF data.ageInDays >= 90 THEN <<"Account age">>
            ELSE IF data.ageInDays >= 30 THEN <<"Recent account">>
            ELSE <<"New account">>
    IN  MetricResult("accountAge", RI(data.ageInDays), normalizedScore, RMul(normalizedScore, weight), weight,
                     details, 1)

\* src/unnamed/part_004 calculateActivityConsistencyMetric
calculateActivityConsistencyMetric(data, weight) ==
    LET activeMonths == data.monthsWithActivity
        totalMonths == data.totalMonthsInWindow
        ceilAge == CeilDiv(data.ageInDays, 30)
        effectiveMonths == IF totalMonths <= ceilAge THEN totalMonths ELSE ceilAge
        ratio == R(activeMonths, effectiveMonths)
        normalizedScore ==
            IF effectiveMonths = 0 THEN RI(50)
            ELSE IF RGeq(ratio, R(9, 10)) THEN RI(100)
            ELSE IF RGeq(ratio, R(7, 10)) THEN RI(85)
            ELSE IF RGeq(ratio, R(5, 10)) THEN RI(70)
            ELSE IF RGeq(ratio, R(25, 100)) THEN RI(55)
            ELSE RI(50)
        details ==
            IF effectiveMonths = 0 THEN <<"Account too new to evaluate consistency">>
            ELSE IF RGeq(ratio, R(9, 10)) THEN <<"Very consistent">>
            ELSE IF RGeq(ratio, R(7, 10)) THEN <<"Consistent">>
            ELSE IF RGeq(ratio, R(5, 10)) THEN <<"Moderate consistency">>
            ELSE IF RGeq(ratio, R(25, 100)) THEN <<"Occasional activity">>
            ELSE <<"Sparse activity">>
    IN  MetricResult("activityConsistency", data.consistencyScore, normalizedScore,
                     RMul(normalizedScore, weight), weight, details, activeMonths)

\* src/unnamed/part_004 isNewAccount
isNewAccount(data, thresholdDays) == data.ageInDays < thresholdDays

\* calculateIssueEngagementMetric scoring an engagement rate below 0.3 on a
\* line from 0 to 50
calculateIssueEngagementMetric_Penalised(data, weight) ==
    IF data.issuesCreated = 0
    THEN MetricResult("issueEngagement", RI(0), RI(50), RMul(RI(50), weight), weight,
                      <<"No issues created in analysis window">>, 0)
    ELSE LET engagedIssues ==
                 IF data.issuesWithComments >= data.issuesWithReactions
                 THEN data.issuesWithComments ELSE data.issuesWithReactions
             engagementRate == R(engagedIssues, data.issuesCreated)
             normalizedScore ==
                 IF RGeq(engagementRate, R(7, 10)) /\ data.issuesCreated >= 3
                 THEN RI(100)
                 ELSE IF RGeq(engagementRate, R(5, 10)) /\ data.issuesCreated >= 2
                 THEN RI(75)
                 ELSE IF RGeq(engagementRate, R(3, 10)) THEN RI(60)
                 ELSE RMul(RDiv(engagementRate, R(3, 10)), RI(50))
         IN  MetricResult("issueEngagement", engagementRate, normalizedScore,
                          RMul(normalizedScore, weight), weight, <<"Low engagement">>,
                          data.issuesCreated)

\* src/metrics/issue-engagement.ts calculateIssueEngagementMetric
calculateIssueEngagementMetric(data, weight) ==
    IF data.issuesCreated = 0
    THEN MetricResult("issueEngagement", RI(0), RI(50), RMul(RI(50), weight), weight,
                      <<"No issues created in analysis window">>, 0)
    ELSE LET engagedIssues ==
                 IF data.issuesWithComments >= data.issuesWithReactions
                 THEN data.issuesWithComments ELSE data.issuesWithReactions
             engagementRate == R(engagedIssues, data.issuesCreated)
             normalizedScore ==
                 IF RGeq(engagementRate, R(7, 10)) /\ data.issuesCreated >= 3
                 THEN RI(100)
                 ELSE IF RGeq(engagementRate, R(5, 10)) /\ data.issuesCreated >= 2
                 THEN RI(75)
                 ELSE IF RGeq(engagementRate, R(3, 10)) THEN RI(60)
                 ELSE RI(50)
             base ==
                 IF RGeq(engagementRate, R(7, 10)) /\ data.issuesCreated >= 3
                 THEN <<"High engagement">>
                 ELSE IF RGeq(engagementRate, R(5, 10)) /\ data.issuesCreated >= 2
                 THEN <<"Good engagement">>
                 ELSE IF RGeq(engagementRate, R(3, 10)) THEN <<"Some engagement">>
                 ELSE <<"Low engagement">>
             details ==
                 IF RGeq(data.averageCommentsPerIssue, RI(3))
                 THEN Append(base, "Avg comments/issue") ELSE base
         IN  MetricResult("issueEngagement", engagementRate, normalizedScore,
                          RMul(normalizedScore, weight), weight, details, data.issuesCreated)

\* calculateCodeReviewMetric without its "0 reviews = neutral" branch
calculateCodeReviewMetric_NoZeroBranch(data, weight) ==
    LET reviews == data.reviewsGiven
        normalizedScore ==
            IF reviews >= 20 THEN RI(100)
            ELSE IF reviews >= 10 THEN RI(80)
            ELSE IF reviews >= 5 THEN RI(65)
            ELSE RI(55)
    IN  MetricResult("codeReviews", RI(reviews), normalizedScore,
                     RMul(normalizedScore, weight), weight, <<"Few reviews">>, reviews)

\* src/unnamed/part_003 calculateCodeReviewMetric
calculateCodeReviewMetric(data, weight) ==
    LET reviews == data.reviewsGiven
        normalizedScore ==
            IF reviews = 0 THEN RI(50)
            ELSE IF reviews >= 20 THEN RI(100)
            ELSE IF reviews >= 10 THEN RI(80)
            ELSE IF reviews >= 5 THEN RI(65)
            ELSE RI(55)
        details ==
            IF reviews = 0 THEN <<"No code reviews given in analysis window">>
            ELSE IF reviews >= 20 THEN <<"Excellent reviewer">>
            ELSE IF reviews >= 10 THEN <<"Active reviewer">>
            ELSE IF reviews >= 5 THEN <<"Some reviews">>
            ELSE <<"Few reviews">>
    IN  MetricResult("codeReviews", RI(reviews), normalizedScore, RMul(normalizedScore, weight), weight,
                     details, reviews)

\* src/src/scoring/engine.ts calculateAllMetrics
calculateAllMetrics(metricsData, config) ==
    LET weights == config.weights
    IN  << calculatePRHistoryMetric(metricsData.prHistory, weights.prMergeRate),
           calculateRepoQualityMetric(metricsData.repoQuality, weights.repoQuality,
                                      config.minimumStars),
           calculatePositiveReactionsMetric(metricsData.reactions,
                                            weights.positiveReactions),
           calculateNegativeReactionsMetric(metricsData.reactions,
                                            weights.negativeReactions),
           calculateAccountAgeMetric(metricsData.account, weights.accountAge),
           calculateActivityConsistencyMetric(metricsData.account,
                                              weights.activityConsistency),
           calculateIssueEngagementMetric(metricsData.issueEngagement,
                                          weights.issueEngagement),
           calculateCodeReviewMetric(metricsData.codeReviews, weights.codeReviews) >>

----------------------------------------------------------------------------
(* Spam detection, src/src/metrics/spam-detection.ts *)

SHORT_PR_RATIO == R(7, 10)
BURST_CLOSED_COUNT == 10
BURST_MERGE_RATE == R(2, 10)
NEW_ACCOUNT_DAYS == 7
NEW_ACCOUNT_PR_COUNT == 5

\* detectSpamPatterns with the closed-PR count compared by > instead of >=
detectSpamPatterns_StrictBurst(prHistory, account) ==
    LET shortPRRatio == R(prHistory.veryShortPRs, prHistory.totalPRs)
        short ==
            IF prHistory.totalPRs > 0 /\ RGeq(shortPRRatio, SHORT_PR_RATIO)
            THEN << [ type    |-> "short-prs",
                      penalty |-> RMin(RAdd(RI(50),
                                            RMul(RSub(shortPRRatio, R(7, 10)), RI(100))),
                                       RI(75)) ] >>
            ELSE <<>>
        burst ==
            IF /\ prHistory.closedWithoutMerge > BURST_CLOSED_COUNT
               /\ RLt(prHistory.mergeRate, BURST_MERGE_RATE)
            THEN << [ type    |-> "burst-closed",
                      penalty |-> RMin(RI(50 + prHistory.closedWithoutMerge * 2),
                                       RI(75)) ] >>
            ELSE <<>>
        newAccount ==
            IF /\ account.ageInDays < NEW_ACCOUNT_DAYS
               /\ prHistory.totalPRs > NEW_ACCOUNT_PR_COUNT
            THEN << [ type |-> "new-account-burst", penalty |-> RI(30) ] >>
            ELSE <<>>
    IN  short \o burst \o newAccount

\* detectSpamPatterns
detectSpamPatterns(prHistory, account) ==
    LET shortPRRatio == R(prHistory.veryShortPRs, prHistory.totalPRs)
        short ==
            IF prHistory.totalPRs > 0 /\ RGeq(shortPRRatio, SHORT_PR_RATIO)
            THEN << [ type    |-> "short-prs",
                      penalty |-> RMin(RAdd(RI(50),
                                            RMul(RSub(shortPRRatio, R(7, 10)), RI(100))),
                                       RI(75)) ] >>
            ELSE <<>>
        burst ==
            IF /\ prHistory.closedWithoutMerge >= BURST_CLOSED_COUNT
               /\ RLt(prHistory.mergeRate, BURST_MERGE_RATE)
            THEN << [ type    |-> "burst-closed",
                      penalty |-> RMin(RI(50 + prHistory.closedWithoutMerge * 2),
                                       RI(75)) ] >>
            ELSE <<>>
        newAccount ==
            IF /\ account.ageInDays < NEW_ACCOUNT_DAYS
               /\ prHistory.totalPRs > NEW_ACCOUNT_PR_COUNT
            THEN << [ type |-> "new-account-burst", penalty |-> RI(30) ] >>
            ELSE <<>>
    IN  short \o burst \o newAccount

\* calculateSpamPenalty without the cap
calculateSpamPenalty_NoCap(penalties) ==
    LET Penalty(p) == p.penalty
    IN  SumSeq(MapSeq(penalties, Penalty))

\* calculateSpamPenalty
calculateSpamPenalty(penalties) ==
    LET Penalty(p) == p.penalty
        total == SumSeq(MapSeq(penalties, Penalty))
    IN  RMin(total, RI(150))

----------------------------------------------------------------------------
(* Decay, src/unnamed/part_008 *)

RECENT_ACTIVITY_MONTHS == 3

\* calculateDecayFactor taking an empty list for fully stale activity
calculateDecayFactor_EmptyIsStale(activityDates, now) ==
    IF Len(activityDates) = 0 THEN MIN_DECAY_FACTOR
    ELSE LET recentThreshold == SubMonths(now, RECENT_ACTIVITY_MONTHS)
             IsRecent(date) == date >= recentThreshold
             recentActivity == Count(activityDates, IsRecent)
             totalActivity == Len(activityDates)
             recencyRatio == R(recentActivity, totalActivity)
             decayRange == RSub(MAX_DECAY_FACTOR, MIN_DECAY_FACTOR)
         IN  RAdd(MIN_DECAY_FACTOR, RMul(recencyRatio, decayRange))

\* calculateDecayFactor counting the old dates in place of the recent ones
calculateDecayFactor_CountsOld(activityDates, now) ==
    IF Len(activityDates) = 0 THEN MAX_DECAY_FACTOR
    ELSE LET recentThreshold == SubMonths(now, RECENT_ACTIVITY_MONTHS)
             IsRecent(date) == date < recentThreshold
             recentActivity == Count(activityDates, IsRecent)
             totalActivity == Len(activityDates)
             recencyRatio == R(recentActivity, totalActivity)
             decayRange == RSub(MAX_DECAY_FACTOR, MIN_DECAY_FACTOR)
         IN  RAdd(MIN_DECAY_FACTOR, RMul(recencyRatio, decayRange))

\* calculateDecayFactor; now is the value of new Date()
calculateDecayFactor(activityDates, now) ==
    IF Len(activityDates) = 0 THEN MAX_DECAY_FACTOR
    ELSE LET recentThreshold == SubMonths(now, RECENT_ACTIVITY_MONTHS)
             IsRecent(date) == date >= recentThreshold
             recentActivity == Count(activityDates, IsRecent)
             totalActivity == Len(activityDates)
             recencyRatio == R(recentActivity, totalActivity)
             decayRange == RSub(MAX_DECAY_FACTOR, MIN_DECAY_FACTOR)
         IN  RAdd(MIN_DECAY_FACTOR, RMul(recencyRatio, decayRange))

\* applyDecayTowardBaseline with the factor applied to the score itself
applyDecayTowardBaseline_OnScore(score, decayFactor) ==
    MathRound(RMul(score, decayFactor))

\* applyDecayTowardBaseline
applyDecayTowardBaseline(score, decayFactor) ==
    LET baseline == RI(BASELINE_SCORE)
        distanceFromBaseline == RSub(score, baseline)
        decayedDistance == RMul(distanceFromBaseline, decayFactor)
    IN  MathRound(RAdd(baseline, decayedDistance))

----------------------------------------------------------------------------
(* Composer, src/unnamed/part_009 and src/src/scoring/engine.ts *)

\* normalizeScore
normalizeScore(weightedSum) == MathRound(RMul(weightedSum, RI(10)))

\* clampScore
clampScore(score) ==
    LET capped == IF score <= MAX_SCORE THEN score ELSE MAX_SCORE
    IN  IF capped >= MIN_SCORE THEN capped ELSE MIN_SCORE

Find(metrics, name) == SelectSeq(metrics, LAMBDA m : m.name = name)

\* generateRecommendations giving its fallback for every low score
generateRecommendations_FallbackAlways(metricsData, metrics, score) ==
    LET Score(name) == Find(metrics, name)[1].normalizedScore
        r1 == IF RLt(Score("prMergeRate"), RI(50))
              THEN <<"Improve PR quality to increase merge rate">> ELSE <<>>
        r5 == IF metricsData.account.ageInDays < 30
              THEN <<"Continue building your contribution history">> ELSE <<>>
        fallback ==
            IF score < 300
            THEN <<"Build your GitHub profile through meaningful contributions">>
            ELSE <<>>
    IN  r1 \o r5 \o fallback

\* src/src/scoring/engine.ts generateRecommendations
generateRecommendations(metricsData, metrics, score) ==
    LET Found(name) == Find(metrics, name) # <<>>
        Score(name) == Find(metrics, name)[1].normalizedScore
        r1 == IF Found("prMergeRate") /\ RLt(Score("prMergeRate"), RI(50))
              THEN <<"Improve PR quality to increase merge rate">> ELSE <<>>
        r2 == IF Found("repoQuality") /\ metricsData.repoQuality.qualityRepoCount = 0
              THEN <<"Consider contributing to established open source projects">>
              ELSE <<>>
        r3 == IF Found("codeReviews") /\ metricsData.codeReviews.reviewsGiven < 5
              THEN <<"Participate in code reviews">> ELSE <<>>
        r4 == IF Found("negativeReactions") /\ RLt(Score("negativeReactions"), RI(40))
              THEN <<"Focus on constructive communication">> ELSE <<>>
        r5 == IF metricsData.account.ageInDays < 30
              THEN <<"Continue building your contribution history">> ELSE <<>>
        r6 == IF /\ Found("activityConsistency")
                 /\ RLt(Score("activityConsistency"), RI(60))
                 /\ metricsData.account.ageInDays >= 90
              THEN <<"Maintain consistent activity over time">> ELSE <<>>
        specific == r1 \o r2 \o r3 \o r4 \o r5 \o r6
    IN  IF score < 300 /\ Len(specific) = 0
        THEN <<"Build your GitHub profile through meaningful contributions">>
        ELSE specific

\* the composition without the lower clamp
composeScore_NoFloor(metrics, spamPenalty, decayFactor, config) ==
    LET Weighted(m) == m.weightedScore
        weightedSum == SumSeq(MapSeq(metrics, Weighted))
        rawScore == normalizeScore(weightedSum)
        scoreAfterPenalty == RSub(RI(rawScore), spamPenalty)
        decayedScore == applyDecayTowardBaseline(scoreAfterPenalty, decayFactor)
        finalScore == IF MAX_SCORE <= decayedScore THEN MAX_SCORE ELSE decayedScore
    IN  [ score       |-> finalScore,
          rawScore    |-> rawScore,
          decayFactor |-> decayFactor,
          passed      |-> finalScore >= config.minimumScore,
          threshold   |-> config.minimumScore ]

\* the composition with the penalty subtracted after the decay
composeScore_DecayFirst(metrics, spamPenalty, decayFactor, config) ==
    LET Weighted(m) == m.weightedScore
        weightedSum == SumSeq(MapSeq(metrics, Weighted))
        rawScore == normalizeScore(weightedSum)
        decayedScore == applyDecayTowardBaseline(RI(rawScore), decayFactor)
        scoreAfterPenalty == MathRound(RSub(RI(decayedScore), spamPenalty))
        capped == IF MAX_SCORE <= scoreAfterPenalty THEN MAX_SCORE ELSE scoreAfterPenalty
        finalScore == IF MIN_SCORE >= capped THEN MIN_SCORE ELSE capped
    IN  [ score       |-> finalScore,
          rawScore    |-> rawScore,
          decayFactor |-> decayFactor,
          passed      |-> finalScore >= config.minimumScore,
          threshold   |-> config.minimumScore ]

\* src/src/scoring/engine.ts calculateScore, lines 240-258: the score composed
\* from the metric results, the spam penalty and the decay factor
composeScore(metrics, spamPenalty, decayFactor, config) ==
    LET Weighted(m) == m.weightedScore
        weightedSum == SumSeq(MapSeq(metrics, Weighted))
        rawScore == normalizeScore(weightedSum)
        scoreAfterPenalty == RSub(RI(rawScore), spamPenalty)
        decayedScore == applyDecayTowardBaseline(scoreAfterPenalty, decayFactor)
        capped == IF MAX_SCORE <= decayedScore THEN MAX_SCORE ELSE decayedScore
        finalScore == IF MIN_SCORE >= capped THEN MIN_SCORE ELSE capped
    IN  [ score       |-> finalScore,
          rawScore    |-> rawScore,
          decayFactor |-> decayFactor,
          passed      |-> finalScore >= config.minimumScore,
          threshold   |-> config.minimumScore ]

\* src/src/scoring/engine.ts calculateScore; now is the value of new Date()
calculateScore(data, config, sinceDate, now) ==
    LET metricsData == extractAllMetrics(data, config, sinceDate, now)
        metrics == calculateAllMetrics(metricsData, config)
        spamPatterns == detectSpamPatterns(metricsData.prHistory, metricsData.account)
        spamPenalty == calculateSpamPenalty(spamPatterns)
        decayFactor == calculateDecayFactor(metricsData.prHistory.mergedPRDates, now)
        composed == composeScore(metrics, spamPenalty, decayFactor, config)
        DataPoints(m) == m.dataPoints
        totalDataPoints == SumInts(MapSeq(metrics, DataPoints))
    IN  [ score           |-> composed.score,
          rawScore        |-> composed.rawScore,
          decayFactor     |-> composed.decayFactor,
          passed          |-> composed.passed,
          threshold       |-> composed.threshold,
          metrics         |-> metrics,
          username        |-> data.login,
          analyzedAt      |-> now,
          dataWindowStart |-> sinceDate,
          dataWindowEnd   |-> now,
          totalDataPoints |-> totalDataPoints,
          recommendations |-> generateRecommendations(metricsData, metrics,
                                                      composed.score),
          isNewAccount    |-> isNewAccount(metricsData.account,
                                           config.newAccountThresholdDays),
          hasLimitedData  |-> totalDataPoints < MIN_CONTRIBUTIONS_FOR_DATA,
          isTrustedUser   |-> FALSE,
          wasWhitelisted  |-> FALSE ]

----------------------------------------------------------------------------
(* Configuration, src/unnamed/part_007 (defaults) and src/src/config/inputs.ts. *)
(* An action input is absent or a string.  A numeric input string is kept as    *)
(* [kind, n]: the empty string, a string parseInt reads as n, or a string       *)
(* parseInt reads as NaN.  The weights input is the empty string, "{}", a       *)
(* string JSON.parse rejects, or a JSON object of numbers, kept as a function   *)
(* from its keys to rationals.  A list input is unset in the workflow or a      *)
(* string, kept as the sequence of its comma-separated pieces; a piece is a     *)
(* name, "" when blank, with or without spaces around it.  The empty string     *)
(* has no pieces.                                                               *)

EmptyStr == [kind |-> "empty", n |-> 0]
BadStr == [kind |-> "bad", n |-> 0]
NumStr(n) == [kind |-> "num", n |-> n]

Piece(name) == [name |-> name, padded |-> FALSE]
Padded(name) == [name |-> name, padded |-> TRUE]
UnsetList == [set |-> FALSE, pieces |-> <<>>]
ListStr(pieces) == [set |-> TRUE, pieces |-> pieces]

\* core.getInput of a list input: its string, the empty string when unset
getInput(input) == IF input.set THEN input.pieces ELSE <<>>

\* String.trim of a piece
trim(piece) == piece.name

\* parseList: split(','), trim, filter non-empty
parseList(input) ==
    IF input = <<>> \/ \A i \in 1..Len(input) : trim(input[i]) = "" THEN <<>>
    ELSE LET names == [i \in 1..Len(input) |-> trim(input[i])]
         IN  SelectSeq(names, LAMBDA s : s # "")

EmptyJSON == [kind |-> "empty", obj |-> <<>>]
BadJSON == [kind |-> "bad", obj |-> <<>>]
ObjJSON(obj) == [kind |-> "object", obj |-> obj]

\* the order in which calculateAllMetrics returns the metrics
MetricOrder ==
    << "prMergeRate", "repoQuality", "positiveReactions", "negativeReactions",
       "accountAge", "activityConsistency", "issueEngagement", "codeReviews" >>

MetricNames ==
    { "prMergeRate", "repoQuality", "positiveReactions", "negativeReactions",
      "accountAge", "activityConsistency", "issueEngagement", "codeReviews" }

DEFAULT_WEIGHTS ==
    [ prMergeRate         |-> R(20, 100),
      repoQuality         |-> R(15, 100),
      positiveReactions   |-> R(15, 100),
      negativeReactions   |-> R(10, 100),
      accountAge          |-> R(10, 100),
      activityConsistency |-> R(10, 100),
      issueEngagement     |-> R(10, 100),
      codeReviews         |-> R(10, 100) ]

DEFAULT_TRUSTED_USERS ==
    << "dependabot[bot]", "renovate[bot]", "github-actions[bot]", "codecov[bot]",
       "sonarcloud[bot]" >>

DEFAULT_CONFIG ==
    [ minimumScore            |-> 300,
      minimumStars            |-> 100,
      analysisWindowMonths    |-> 12,
      trustedUsers            |-> DEFAULT_TRUSTED_USERS,
      trustedOrgs             |-> <<>>,
      onLowScore              |-> "comment",
      labelName               |-> "needs-review",
      weights                 |-> DEFAULT_WEIGHTS,
      dryRun                  |-> FALSE,
      newAccountAction        |-> "neutral",
      newAccountThresholdDays |-> 30 ]

RECURSIVE SumOver(_, _)
SumOver(f, keys) ==
    IF keys = {} THEN RI(0)
    ELSE LET k == CHOOSE x \in keys : TRUE
         IN  RAdd(f[k], SumOver(f, keys \ {k}))

\* validateWeights
validateWeights(weights) ==
    LET sum == SumOver(weights, DOMAIN weights)
        diff == RSub(sum, RI(1))
        absDiff == IF RLt(diff, RI(0)) THEN RSub(RI(0), diff) ELSE diff
    IN  RLt(absDiff, R(1, 100))

\* mergeWeights: { ...DEFAULT_WEIGHTS, ...custom }
mergeWeights(custom) ==
    [ k \in DOMAIN DEFAULT_WEIGHTS \cup DOMAIN custom |->
        IF k \in DOMAIN custom THEN custom[k] ELSE DEFAULT_WEIGHTS[k] ]

\* parseJSON with the fallback {}
parseJSON(input) == IF input.kind = "object" THEN input.obj ELSE <<>>

\* parseIntSafe: the parsed number, or "throws"
parseIntSafe(value, defaultValue) ==
    IF value.kind = "empty" THEN [throws |-> FALSE, n |-> defaultValue]
    ELSE IF value.kind = "bad" THEN [throws |-> TRUE, n |-> 0]
    ELSE [throws |-> FALSE, n |-> value.n]

validateLowScoreAction(action) ==
    IF action \in {"comment", "label", "fail", "comment-and-label", "none"}
    THEN action ELSE "comment"

validateNewAccountAction(action) ==
    IF action \in {"neutral", "require-review", "block"} THEN action ELSE "neutral"

\* validateConfig rejecting the limits 0 and 1000 of minimumScore
validateConfig_ExclusiveRange(config) ==
    /\ ~(config.minimumScore <= 0 \/ config.minimumScore >= 1000)
    /\ ~(config.minimumStars < 0)
    /\ ~(config.analysisWindowMonths <= 0)
    /\ ~(config.newAccountThresholdDays < 0)

\* validateConfig: TRUE when it returns, FALSE when it throws
validateConfig(config) ==
    /\ ~(config.minimumScore < 0 \/ config.minimumScore > 1000)
    /\ ~(config.minimumStars < 0)
    /\ ~(config.analysisWindowMonths <= 0)
    /\ ~(config.newAccountThresholdDays < 0)

\* parseInputs; inputs holds the workflow's value of each list input and, for
\* every other input name, what core.getInput returns
parseInputs(inputs) ==
    LET trustedUsersInput == getInput(inputs.trustedUsers)
        minimumScore == parseIntSafe(inputs.minimumScore, DEFAULT_CONFIG.minimumScore)
        minimumStars == parseIntSafe(inputs.minimumStars, DEFAULT_CONFIG.minimumStars)
        analysisWindowMonths ==
            parseIntSafe(inputs.analysisWindow, DEFAULT_CONFIG.analysisWindowMonths)
        newAccountThresholdDays ==
            parseIntSafe(inputs.newAccountThresholdDays,
                         DEFAULT_CONFIG.newAccountThresholdDays)
        weights == mergeWeights(parseJSON(inputs.weights))
        config ==
            [ minimumScore            |-> minimumScore.n,
              minimumStars            |-> minimumStars.n,
              analysisWindowMonths    |-> analysisWindowMonths.n,
              trustedUsers            |-> IF trustedUsersInput # <<>>
                                          THEN parseList(trustedUsersInput)
                                          ELSE DEFAULT_CONFIG.trustedUsers,
              trustedOrgs             |-> parseList(getInput(inputs.trustedOrgs)),
              onLowScore              |-> validateLowScoreAction(
                                              IF inputs.onLowScore # ""
                                              THEN inputs.onLowScore
                                              ELSE DEFAULT_CONFIG.onLowScore),
              labelName               |-> IF inputs.labelName # ""
                                          THEN inputs.labelName
                                          ELSE DEFAULT_CONFIG.labelName,
              weights                 |-> weights,
              dryRun                  |-> inputs.dryRun = "true",
              newAccountAction        |-> validateNewAccountAction(
                                              IF inputs.newAccountAction # ""
                                              THEN inputs.newAccountAction
                                              ELSE DEFAULT_CONFIG.newAccountAction),
              newAccountThresholdDays |-> newAccountThresholdDays.n ]
        threw ==
            \/ minimumScore.throws \/ minimumStars.throws
            \/ analysisWindowMonths.throws \/ newAccountThresholdDays.throws
            \/ ~validateConfig(config)
        \* the inputs core.warning was called about; the first three numeric
        \* inputs are parsed before any warning is given
        warnings ==
            IF minimumScore.throws \/ minimumStars.throws \/ analysisWindowMonths.throws
            THEN {}
            ELSE { w \in {"on-low-score", "weights", "weights-sum", "new-account-action"} :
                     \/ w = "on-low-score"
                          /\ inputs.onLowScore # ""
                          /\ validateLowScoreAction(inputs.onLowScore) # inputs.onLowScore
                     \/ w = "weights" /\ inputs.weights.kind = "bad"
                     \/ w = "weights-sum" /\ ~validateWeights(weights)
                     \/ w = "new-account-action"
                          /\ inputs.newAccountAction # ""
                          /\ validateNewAccountAction(inputs.newAccountAction)
                                 # inputs.newAccountAction }
    IN  IF threw
        THEN [ throws |-> TRUE, config |-> DEFAULT_CONFIG, warned |-> FALSE,
               warnings |-> warnings ]
        ELSE [ throws |-> FALSE, config |-> config,
               warned |-> ~validateWeights(weights), warnings |-> warnings ]

----------------------------------------------------------------------------
(* The action's entry point, src/src/main.ts.  run() suspends at each call   *)
(* of the GitHub client; while fn = "run", ret holds its position (pc: the   *)
(* client call it awaits, or "done"), the client calls and core calls made   *)
(* so far in order (events), the action outputs set (outputs), the scoring   *)
(* result (result), what checkOrgMembership answered (isMember) and the      *)
(* client call that threw, if one did (threw).  The client itself is the     *)
(* environment: each of its calls returns or throws.                         *)

Contains(list, x) == \E i \in 1..Len(list) : list[i] = x

RunState(pc, events, outputs, result, then) ==
    [ pc |-> pc, events |-> events, outputs |-> outputs, result |-> result,
      then |-> then, isMember |-> FALSE, threw |-> "" ]

\* src/src/output/formatter.ts setWhitelistOutputs
setWhitelistOutputs(username) ==
    [ score           |-> 1000,
      passed          |-> TRUE,
      recommendations |-> <<>>,
      isNewAccount    |-> FALSE,
      hasLimitedData  |-> FALSE,
      wasWhitelisted  |-> TRUE ]

\* src/src/output/formatter.ts setActionOutputs
setActionOutputs(result) ==
    [ score           |-> result.score,
      passed          |-> result.passed,
      recommendations |-> result.recommendations,
      isNewAccount    |-> result.isNewAccount,
      hasLimitedData  |-> result.hasLimitedData,
      wasWhitelisted  |-> result.wasWhitelisted ]

\* run, lines 101-108: the catch block
runCatch(state) ==
    [state EXCEPT !.pc = "done", !.events = Append(@, "setFailed:error")]

\* the call of a client method: run awaits it, and goes on to `then`
Await(state, method, then) ==
    [state EXCEPT !.pc = method, !.events = Append(@, method), !.then = then]

Done(state) == [state EXCEPT !.pc = "done"]

\* run, lines 39-46 and 59-63: the whitelist exit
whitelisted(state, username) ==
    [state EXCEPT !.pc = "done",
                  !.events = Append(@, "setWhitelistOutputs"),
                  !.outputs = << setWhitelistOutputs(username) >>]

\* handleNewAccount
handleNewAccount(state, config) ==
    IF config.newAccountAction = "require-review"
    THEN IF ~config.dryRun THEN Await(state, "addPRLabel", "done") ELSE Done(state)
    ELSE IF config.newAccountAction = "block"
    THEN Done([state EXCEPT !.events = Append(@, "setFailed:new-account")])
    ELSE Done(state)

\* handleLowScore
handleLowScore(state, config) ==
    IF config.onLowScore = "comment"
    THEN IF ~config.dryRun THEN Await(state, "addPRComment", "done") ELSE Done(state)
    ELSE IF config.onLowScore = "label"
    THEN IF ~config.dryRun THEN Await(state, "addPRLabel", "done") ELSE Done(state)
    ELSE IF config.onLowScore = "comment-and-label"
    THEN IF ~config.dryRun THEN Await(state, "addPRComment", "addPRLabel")
         ELSE Done(state)
    ELSE IF config.onLowScore = "fail"
    THEN Done([state EXCEPT !.events = Append(@, "setFailed:low-score")])
    ELSE Done(state)

\* run, lines 49-79 after the trusted-user check: the organization check
\* when organizations are trusted, else the data fetch
runAfterTrustedUsers(state, config) ==
    IF Len(config.trustedOrgs) > 0
    THEN Await(state, "checkOrgMembership", "fetchContributorData")
    ELSE Await(state, "fetchContributorData", "done")

\* run without the return that ends the trusted-user branch
run_NoReturn(parsed, hasContext, username) ==
    LET state == RunState("start", <<>>, <<>>, <<>>, "done")
        config == parsed.config
    IN  IF parsed.throws THEN runCatch(state)
        ELSE IF ~hasContext
        THEN Done([state EXCEPT !.events = Append(@, "setFailed:no-context")])
        ELSE IF Contains(config.trustedUsers, username)
        THEN runAfterTrustedUsers(whitelisted(state, username), config)
        ELSE runAfterTrustedUsers(state, config)

\* run, lines 21-53: from the start to the first client call
run(parsed, hasContext, username) ==
    LET state == RunState("start", <<>>, <<>>, <<>>, "done")
        config == parsed.config
    IN  IF parsed.throws THEN runCatch(state)
        ELSE IF ~hasContext
        THEN Done([state EXCEPT !.events = Append(@, "setFailed:no-context")])
        ELSE IF Contains(config.trustedUsers, username)
        THEN whitelisted(state, username)
        ELSE runAfterTrustedUsers(state, config)

\* run going on to the data fetch when checkOrgMembership has thrown
runAfterOrgMembership_ErrorIgnored(state, username, threw, isMember) ==
    IF isMember /\ ~threw THEN whitelisted([state EXCEPT !.isMember = TRUE], username)
    ELSE Await(state, "fetchContributorData", "done")

\* run, lines 54-79: checkOrgMembership has returned isMember or thrown
runAfterOrgMembership(state, username, threw, isMember) ==
    IF threw THEN runCatch(state)
    ELSE IF isMember THEN whitelisted([state EXCEPT !.isMember = TRUE], username)
    ELSE Await(state, "fetchContributorData", "done")

\* run, lines 76-100: fetchContributorData has returned or thrown; result is
\* what calculateScore returns for the data fetched
runAfterFetch(state, config, threw, result) ==
    IF threw THEN runCatch(state)
    ELSE LET scored == [state EXCEPT
                           !.events = @ \o <<"calculateScore", "setActionOutputs">>,
                           !.outputs = << setActionOutputs(result) >>,
                           !.result = << result >>]
         IN  IF result.isNewAccount /\ config.newAccountAction # "neutral"
             THEN handleNewAccount(scored, config)
             ELSE IF ~result.passed THEN handleLowScore(scored, config)
             ELSE Done(scored)

\* the client call run awaits has returned or thrown
Thrown(state, threw) == IF threw THEN [state EXCEPT !.threw = state.pc] ELSE state

\* handleLowScore and handleNewAccount: addPRComment or addPRLabel has
\* returned or thrown
runAfterClientCall(state, threw) ==
    IF threw THEN runCatch(state)
    ELSE IF state.then = "done" THEN Done(state)
    ELSE Await(state, state.then, "done")

----------------------------------------------------------------------------
(* The fetch client's retry wrapper, src/api/rate-limit.ts.  The file is not *)
(* among the sources; it is modelled from the specification's Fetch Client   *)
(* section and from its tests in                                             *)
(* src/__tests__/metrics/issue-engagement.test.ts.  Times are in seconds.    *)
(* While fn = "executeWithRetry", ret holds the wrapper's position (pc), the *)
(* number of requests issued (attempts), the number in flight (inFlight),    *)
(* the outcome of every request so far (calls), the waits made (waits), the  *)
(* clock (now) and what was returned or thrown (value, error).               *)

\* remaining quota below which the client waits for the reset
LOW_WATER_MARK == 100
\* the longest wait
MAX_WAIT == 60
\* the first backoff of a transient failure
BASE_DELAY == 1

RateLimitMessages == {"API rate limit exceeded", "secondary rate limit"}
TransientMessages == {"ECONNRESET", "503 Service Unavailable"}
FatalMessages == {"Not found", "Bad request", "Unauthorized"}

isRateLimitError(error) == error \in RateLimitMessages

isTransientError(error) == error \in TransientMessages

\* every failure is retried
classify_AllTransient(error) ==
    IF isRateLimitError(error) THEN "rate-limit" ELSE "transient"

\* the class of a failure: rate-limit, transient or fatal
classify(error) ==
    IF isRateLimitError(error) THEN "rate-limit"
    ELSE IF isTransientError(error) THEN "transient"
    ELSE "fatal"

shouldWait(rateLimit) == rateLimit.remaining < LOW_WATER_MARK

\* calculateWaitTime without the cap
calculateWaitTime_NoCap(rateLimit, now) ==
    IF ~shouldWait(rateLimit) THEN 0
    ELSE IF rateLimit.resetAt <= now THEN 0
    ELSE rateLimit.resetAt - now

\* calculateWaitTime; now is the value of Date.now()
calculateWaitTime(rateLimit, now) ==
    IF ~shouldWait(rateLimit) THEN 0
    ELSE LET untilReset == rateLimit.resetAt - now
         IN  IF untilReset <= 0 THEN 0
             ELSE IF untilReset > MAX_WAIT THEN MAX_WAIT ELSE untilReset

\* the bounded exponential backoff before the retry that follows attempt
backoff(attempt) ==
    LET delay == BASE_DELAY * 2 ^ (attempt - 1)
    IN  IF delay > MAX_WAIT THEN MAX_WAIT ELSE delay

RetryState(pc, now) ==
    [ pc |-> pc, attempts |-> 0, inFlight |-> 0, calls |-> <<>>, waits |-> <<>>,
      now |-> now, value |-> "", error |-> "" ]

Wait(state, kind, seconds) ==
    [state EXCEPT !.pc = "waiting",
                  !.waits = Append(@, [kind |-> kind, at |-> state.now,
                                       seconds |-> seconds])]

\* executeWithRetry up to its first request: the proactive wait when the
\* last known quota is below the low-water mark
executeWithRetry(rateLimit, now) ==
    IF shouldWait(rateLimit)
    THEN Wait(RetryState("ready", now), "proactive", calculateWaitTime(rateLimit, now))
    ELSE RetryState("ready", now)

\* executeWithRetry: the request is issued
sendRequest(state) ==
    [state EXCEPT !.pc = "inFlight", !.attempts = @ + 1, !.inFlight = @ + 1]

\* executeWithRetry: the request has returned ("success") or failed with an
\* error message
afterRequest(state, maxAttempts, rateLimit, outcome) ==
    LET received == [state EXCEPT !.inFlight = @ - 1, !.calls = Append(@, outcome)]
        thrown == [received EXCEPT !.pc = "thrown", !.error = outcome]
    IN  IF outcome = "success"
        THEN [received EXCEPT !.pc = "returned", !.value = "success"]
        ELSE IF classify(outcome) = "fatal" THEN thrown
        ELSE IF received.attempts >= maxAttempts THEN thrown
        ELSE IF classify(outcome) = "rate-limit"
        THEN Wait(received, "rate-limit", calculateWaitTime(rateLimit, received.now))
        ELSE Wait(received, "transient", backoff(received.attempts))

\* executeWithRetry: the wait is over
afterWait(state) ==
    [state EXCEPT !.pc = "ready", !.now = @ + state.waits[Len(state.waits)].seconds]

----------------------------------------------------------------------------
(* Contributor data the functions are applied to *)

Repeat(x, n) == [i \in 1..n |-> x]

Repo(k, stars) == [owner |-> "org", name |-> k, stargazerCount |-> stars]

PullRequest(state, merged, createdAt, mergedAt, lines, repository) ==
    [ state      |-> state,
      merged     |-> merged,
      createdAt  |-> createdAt,
      mergedAt   |-> mergedAt,
      additions  |-> lines,
      deletions  |-> 0,
      repository |-> repository ]

MergedPR(day, lines, repository) ==
    PullRequest("MERGED", TRUE, day, day, lines, repository)
ClosedPR(day, lines) ==
    PullRequest("CLOSED", FALSE, day, Null, lines, Repo(0, 0))
OpenPR(day, lines) ==
    PullRequest("OPEN", FALSE, day, Null, lines, Repo(0, 0))

Issue(createdAt, comments, reactions) ==
    [createdAt |-> createdAt, comments |-> comments, reactions |-> reactions]

\* one calendar week holding one active day in each of the last n months
ActiveWeeks(n, now) ==
    << [i \in 1..n |-> [date |-> now - 30 * (i - 1), contributionCount |-> 1]] >>

EmptyUser(age, now) ==
    [ login         |-> "contributor",
      createdAt     |-> now - age,
      pullRequests  |-> <<>>,
      calendarWeeks |-> <<>>,
      reviewCount   |-> 0,
      issueComments |-> <<>>,
      issues        |-> <<>> ]

\* m merged, c closed and o open pull requests, all made on one day, each of
\* the given size, the merged ones in one repository
PRList(m, c, o, day, lines) ==
    Repeat(MergedPR(day, lines, Repo(1, 0)), m)
        \o Repeat(ClosedPR(day, lines), c) \o Repeat(OpenPR(day, lines), o)

\* m merged pull requests in a repository with 100 stars and c closed ones
QualityPRList(m, c, day, lines) ==
    Repeat(MergedPR(day, lines, Repo(1, 100)), m) \o Repeat(ClosedPR(day, lines), c)

\* PRList(m, c, o, day, 50) with its first v pull requests cut to 4 lines
ShortPRList(m, c, o, v, day) ==
    LET base == PRList(m, c, o, day, 50)
    IN  [i \in 1..Len(base) |->
            IF i <= v THEN [base[i] EXCEPT !.additions = 4] ELSE base[i]]

\* merged pull requests in n repositories, the first q of them with 100 stars
RepoPRList(n, q, day) ==
    [i \in 1..n |-> MergedPR(day, 50, Repo(i, IF i <= q THEN 100 ELSE 99))]

\* a comment made on a day, carrying p positive, n negative and u neutral
\* reactions
Comment(day, p, n, u) ==
    [ createdAt |-> day,
      reactions |-> Repeat("+1", p) \o Repeat("-1", n) \o Repeat("eyes", u) ]

\* one comment of today carrying p positive, n negative and u neutral reactions
CommentList(p, n, u) ==
    IF p + n + u = 0 THEN <<>> ELSE << Comment(NowDay, p, n, u) >>

\* a issues nobody answered, b with a comment, c with a reaction, d with both
IssueList(a, b, c, d, day) ==
    Repeat(Issue(day, 0, 0), a) \o Repeat(Issue(day, 1, 0), b)
        \o Repeat(Issue(day, 0, 1), c) \o Repeat(Issue(day, 4, 1), d)

Since(now, months) == SubMonths(now, months)

----------------------------------------------------------------------------
(* The calls.  Each action is one call of one function: it is made once,    *)
(* from the state in which nothing was called yet.                          *)

NoValue == [none |-> TRUE]

Init == fn = "none" /\ args = NoValue /\ ret = NoValue

Call(name, a, r) == fn' = name /\ args' = a /\ ret' = r

CallPRHistoryMetric ==
    /\ fn = "none"
    /\ \E m \in 0..MaxPRs, c \in 0..MaxPRs, o \in 0..MaxPRs, weight \in WeightSet :
        /\ m + c + o <= MaxPRs
        /\ LET user == [EmptyUser(400, NowDay) EXCEPT
                           !.pullRequests = PRList(m, c, o, NowDay, 50)]
               data == extractPRHistoryData(user, Since(NowDay, 12))
           IN  Call("calculatePRHistoryMetric", [data |-> data, weight |-> weight],
                    calculatePRHistoryMetric(data, weight))

CallRepoQualityMetric ==
    /\ fn = "none"
    /\ \E n \in 0..MaxRepos, weight \in WeightSet :
        \E q \in 0..n :
            LET user == [EmptyUser(400, NowDay) EXCEPT
                            !.pullRequests = RepoPRList(n, q, NowDay)]
                data == extractRepoQualityData(user, 100, Since(NowDay, 12))
            IN  Call("calculateRepoQualityMetric",
                     [data |-> data, weight |-> weight, minimumStars |-> 100],
                     calculateRepoQualityMetric(data, weight, 100))

CallPositiveReactionsMetric ==
    /\ fn = "none"
    /\ \E p \in 0..MaxReactions, n \in 0..MaxReactions, u \in 0..MaxReactions,
       weight \in WeightSet :
        /\ p + n + u <= MaxReactions
        /\ LET user == [EmptyUser(400, NowDay) EXCEPT
                           !.issueComments = CommentList(p, n, u)]
               data == extractReactionData(user)
           IN  Call("calculatePositiveReactionsMetric",
                    [data |-> data, weight |-> weight],
                    calculatePositiveReactionsMetric(data, weight))

CallNegativeReactionsMetric ==
    /\ fn = "none"
    /\ \E p \in 0..MaxReactions, n \in 0..MaxReactions, u \in 0..MaxReactions,
       weight \in WeightSet :
        /\ p + n + u <= MaxReactions
        /\ LET user == [EmptyUser(400, NowDay) EXCEPT
                           !.issueComments = CommentList(p, n, u)]
               data == extractReactionData(user)
           IN  Call("calculateNegativeReactionsMetric",
                    [data |-> data, weight |-> weight],
                    calculateNegativeReactionsMetric(data, weight))

AccountUsers ==
    { [EmptyUser(age, NowDay) EXCEPT !.calendarWeeks = ActiveWeeks(n, NowDay)] :
        age \in AgeSet, n \in 0..MaxActiveMonths }

CallAccountAgeMetric ==
    /\ fn = "none"
    /\ \E user \in AccountUsers, window \in {1, 6, 12, 24}, weight \in WeightSet :
        LET data == extractAccountData(user, window, NowDay)
        IN  Call("calculateAccountAgeMetric", [data |-> data, weight |-> weight],
                 calculateAccountAgeMetric(data, weight))

CallActivityConsistencyMetric ==
    /\ fn = "none"
    /\ \E user \in AccountUsers, window \in {1, 6, 12, 24}, weight \in WeightSet :
        LET data == extractAccountData(user, window, NowDay)
        IN  Call("calculateActivityConsistencyMetric",
                 [data |-> data, weight |-> weight],
                 calculateActivityConsistencyMetric(data, weight))

CallIssueEngagementMetric ==
    /\ fn = "none"
    /\ \E a \in 0..MaxIssues, b \in 0..MaxIssues, c \in 0..MaxIssues,
       d \in 0..MaxIssues, weight \in WeightSet :
        /\ a + b + c + d <= MaxIssues
        /\ LET user == [EmptyUser(400, NowDay) EXCEPT
                           !.issues = IssueList(a, b, c, d, NowDay)]
               data == extractIssueEngagementData(user, Since(NowDay, 12))
           IN  Call("calculateIssueEngagementMetric",
                    [data |-> data, weight |-> weight],
                    calculateIssueEngagementMetric(data, weight))

CallCodeReviewMetric ==
    /\ fn = "none"
    /\ \E reviews \in 0..MaxReviews, weight \in WeightSet :
        LET user == [EmptyUser(400, NowDay) EXCEPT !.reviewCount = reviews]
            data == extractCodeReviewData(user)
        IN  Call("calculateCodeReviewMetric", [data |-> data, weight |-> weight],
                 calculateCodeReviewMetric(data, weight))

\* contributors for the calls that take a whole contributor: every mix of a
\* few pull-request histories, reactions, calendars, reviews and issues
ProfilePRs ==
    { PRList(m, 10 - m, 0, NowDay - d, 50) : m \in {0, 1, 2, 5, 8, 10}, d \in {0, 200} }
        \cup { PRList(0, 0, o, NowDay, 50) : o \in {0, 2} }
        \cup { PRList(2, 13, 0, NowDay, 4), QualityPRList(2, 13, NowDay, 4) }

ProfileReactions == { CommentList(0, 0, 0), CommentList(5, 0, 0), CommentList(1, 4, 0) }

UserProfiles ==
    { [ login         |-> "contributor",
        createdAt     |-> NowDay - age,
        pullRequests  |-> prs,
        calendarWeeks |-> ActiveWeeks(months, NowDay),
        reviewCount   |-> reviews,
        issueComments |-> comments,
        issues        |-> IssueList(0, 0, 0, issues, NowDay) ] :
        age \in {0, 5, 400}, prs \in ProfilePRs, months \in {0, 10},
        reviews \in {0, 15}, comments \in ProfileReactions, issues \in {0, 3} }

\* contributors for the end-to-end calls: an account of 0, 5 or 400 days; no
\* pull requests, open ones only, a clean history, an old mostly-closed one,
\* and the burst of 15 very short pull requests with 13 closed; with or
\* without a calendar, reviews and issues; three kinds of reactions
ScorePRs ==
    { PRList(0, 0, 0, NowDay, 50), PRList(0, 0, 2, NowDay, 50),
      PRList(10, 0, 0, NowDay, 50), PRList(2, 8, 0, NowDay - 200, 50),
      PRList(2, 13, 0, NowDay, 4), QualityPRList(2, 13, NowDay, 4) }

ScoreProfiles ==
    { [ login         |-> "contributor",
        createdAt     |-> NowDay - age,
        pullRequests  |-> prs,
        calendarWeeks |-> ActiveWeeks(IF active THEN 10 ELSE 0, NowDay),
        reviewCount   |-> IF active THEN 15 ELSE 0,
        issueComments |-> comments,
        issues        |-> IssueList(0, 0, 0, IF active THEN 3 ELSE 0, NowDay) ] :
        age \in {0, 5, 400}, prs \in ScorePRs, active \in BOOLEAN,
        comments \in ProfileReactions }

\* established contributors: 10 pull requests of which 7 to 10 were merged
\* into a repository with 100 stars, no reactions, an account of 400 days,
\* 10 active months, 15 reviews, no issues
ScenarioProfiles ==
    { [ login         |-> "contributor",
        createdAt     |-> NowDay - 400,
        pullRequests  |-> QualityPRList(m, 10 - m, NowDay, 50),
        calendarWeeks |-> ActiveWeeks(10, NowDay),
        reviewCount   |-> 15,
        issueComments |-> <<>>,
        issues        |-> <<>> ] : m \in 7..10 }

\* weights inputs: unset, the README's partial override, overrides that make
\* the weights sum to less and to more than 1, and unparsable JSON
WeightsInputs ==
    { EmptyJSON, BadJSON,
      ObjJSON([prMergeRate |-> R(25, 100), repoQuality |-> R(20, 100)]),
      ObjJSON([prMergeRate |-> R(5, 100)]),
      ObjJSON([prMergeRate |-> R(30, 100), repoQuality |-> R(5, 100)]),
      ObjJSON([codeReviews |-> RI(1), accountAge |-> RI(1)]) }

Inputs(weights, minimumScore, thresholdDays) ==
    [ minimumScore            |-> minimumScore,
      minimumStars            |-> EmptyStr,
      analysisWindow          |-> EmptyStr,
      trustedUsers            |-> UnsetList,
      trustedOrgs             |-> UnsetList,
      onLowScore              |-> "",
      labelName               |-> "",
      weights                 |-> weights,
      dryRun                  |-> "",
      newAccountAction        |-> "",
      newAccountThresholdDays |-> thresholdDays ]

\* configurations parseInputs returns: every weights input with the other
\* inputs unset, and the default weights with another minimum score or with
\* another new-account threshold
Configs ==
    { parseInputs(Inputs(w, EmptyStr, EmptyStr)).config : w \in WeightsInputs }
        \cup { parseInputs(Inputs(EmptyJSON, NumStr(500), EmptyStr)).config,
               parseInputs(Inputs(EmptyJSON, EmptyStr, NumStr(0))).config }

\* the configurations that differ in their weights only
MetricConfigs ==
    { parseInputs(Inputs(w, EmptyStr, EmptyStr)).config : w \in WeightsInputs }

CallCalculateAllMetrics ==
    /\ fn = "none"
    /\ \E user \in UserProfiles, config \in MetricConfigs :
        LET metricsData ==
                extractAllMetrics(user, config,
                                  Since(NowDay, config.analysisWindowMonths), NowDay)
        IN  Call("calculateAllMetrics", [metricsData |-> metricsData, config |-> config],
                 calculateAllMetrics(metricsData, config))

MetricCalls ==
    \/ CallPRHistoryMetric
    \/ CallRepoQualityMetric
    \/ CallPositiveReactionsMetric
    \/ CallNegativeReactionsMetric
    \/ CallAccountAgeMetric
    \/ CallActivityConsistencyMetric
    \/ CallIssueEngagementMetric
    \/ CallCodeReviewMetric
    \/ CallCalculateAllMetrics

SpecMetrics == Init /\ [][MetricCalls]_vars

----------------------------------------------------------------------------
(* Calls of the spam detector, the decay function and the composer *)

CallDetectSpamPatterns ==
    /\ fn = "none"
    /\ \E m \in 0..MaxPRs, c \in 0..MaxPRs, o \in {0, 1}, v \in 0..MaxPRs,
          age \in {5, 6, 7, 400} :
        /\ m + c + o <= MaxPRs
        /\ v <= m + c + o
        /\ LET user == [EmptyUser(age, NowDay) EXCEPT
                           !.pullRequests = ShortPRList(m, c, o, v, NowDay)]
               prHistory == extractPRHistoryData(user, Since(NowDay, 12))
               account == extractAccountData(user, 12, NowDay)
           IN  Call("detectSpamPatterns",
                    [prHistory |-> prHistory, account |-> account],
                    detectSpamPatterns(prHistory, account))

\* penalties the detector can return, and one larger than any of them
PenaltySet ==
    { [type |-> "short-prs", penalty |-> RI(50)],
      [type |-> "short-prs", penalty |-> R(160, 3)],
      [type |-> "short-prs", penalty |-> RI(75)],
      [type |-> "burst-closed", penalty |-> RI(70)],
      [type |-> "new-account-burst", penalty |-> RI(30)],
      [type |-> "burst-closed", penalty |-> RI(200)] }

PenaltyLists == UNION { [1..n -> PenaltySet] : n \in 0..MaxPenalties }

CallCalculateSpamPenalty ==
    /\ fn = "none"
    /\ \E penalties \in PenaltyLists :
        Call("calculateSpamPenalty", [penalties |-> penalties],
             calculateSpamPenalty(penalties))

\* days before now on which a pull request was merged: today, the day
\* before the 3-month threshold, the threshold itself, the day after, long ago
DateOffsets == <<0, 89, 90, 91, 200>>

DateLists ==
    UNION { [1..n -> { NowDay - DateOffsets[i] : i \in 1..Len(DateOffsets) }] :
              n \in 0..MaxDates }

CallCalculateDecayFactor ==
    /\ fn = "none"
    /\ \E activityDates \in DateLists :
        Call("calculateDecayFactor", [activityDates |-> activityDates, now |-> NowDay],
             calculateDecayFactor(activityDates, NowDay))

DecayFactors == { R(f, 100) : f \in {80, 85, 90, 95, 100} }

CallApplyDecayTowardBaseline ==
    /\ fn = "none"
    /\ \E score \in { RI(x) : x \in {-150, 0, 200, 495, 498, 499, 500, 501, 502, 505,
                                       800, 1000} }
                      \cup { R(1340, 3) },
          decayFactor \in DecayFactors :
        Call("applyDecayTowardBaseline", [score |-> score, decayFactor |-> decayFactor],
             applyDecayTowardBaseline(score, decayFactor))

\* metric results with any normalized score: the first four metrics take
\* their scores independently, the last four share one
ScoreSet == { RI(0), RI(50), RI(100) }

AnyMetrics(weights) ==
    { [ i \in 1..8 |->
          LET score == IF i <= 4 THEN s[i] ELSE s[5]
              weight == weights[MetricOrder[i]]
          IN  MetricResult(MetricOrder[i], score, score, RMul(score, weight), weight,
                           <<>>, 1) ] : s \in [1..5 -> ScoreSet] }

\* weights of any kind: the defaults, all zero, all one, and negative ones
AnyWeights ==
    { DEFAULT_WEIGHTS,
      mergeWeights([prMergeRate |-> R(25, 100), repoQuality |-> R(20, 100)]),
      [k \in MetricNames |-> RI(0)],
      [k \in MetricNames |-> RI(1)],
      [k \in MetricNames |-> R(-1, 2)] }

CallComposeScore ==
    /\ fn = "none"
    /\ \E weights \in AnyWeights,
          spamPatterns \in { <<>>, << [type |-> "short-prs", penalty |-> R(160, 3)] >>,
                             << [type |-> "short-prs", penalty |-> RI(75)],
                                [type |-> "burst-closed", penalty |-> RI(75)],
                                [type |-> "new-account-burst", penalty |-> RI(30)] >> },
          decayFactor \in {R(8, 10), R(9, 10), RI(1)},
          minimumScore \in {0, 300, 1000} :
        \E metrics \in AnyMetrics(weights) :
            LET config == [DEFAULT_CONFIG EXCEPT !.weights = weights,
                                                 !.minimumScore = minimumScore]
            IN  Call("composeScore",
                     [ metrics |-> metrics, spamPatterns |-> spamPatterns,
                       decayFactor |-> decayFactor, config |-> config ],
                     composeScore(metrics, calculateSpamPenalty(spamPatterns),
                                  decayFactor, config))

CallCalculateScore ==
    /\ fn = "none"
    /\ \E user \in ScoreProfiles \cup ScenarioProfiles, config \in Configs :
        LET sinceDate == Since(NowDay, config.analysisWindowMonths)
        IN  Call("calculateScore",
                 [ data |-> user, config |-> config, sinceDate |-> sinceDate,
                   now |-> NowDay ],
                 calculateScore(user, config, sinceDate, NowDay))

\* numeric input strings: unset, not a number, and numbers on both sides of
\* the limits validateConfig checks
NumInputs(ns) == {EmptyStr, BadStr} \cup { NumStr(n) : n \in ns }

\* trusted-users in the workflow: unset, the empty string, blanks and commas
\* only, two names, and three pieces of which one is blank and one padded
TrustedUsersInputs ==
    { UnsetList, ListStr(<<>>), ListStr(<<Padded(""), Piece("")>>),
      ListStr(<<Piece("user1"), Piece("user2")>>),
      ListStr(<<Padded("user1"), Piece(""), Piece("dependabot[bot]")>>) }

ParseInputsInputs ==
    { [Inputs(weights, minimumScore, thresholdDays) EXCEPT
          !.minimumStars = minimumStars, !.analysisWindow = analysisWindow,
          !.trustedUsers = users, !.onLowScore = onLowScore,
          !.newAccountAction = newAccountAction] :
        weights \in { EmptyJSON, BadJSON,
                      ObjJSON([prMergeRate |-> R(30, 100), repoQuality |-> R(5, 100)]),
                      ObjJSON([prMergeRate |-> R(5, 100)]) },
        minimumScore \in NumInputs({-1, 0, 500, 1000, 1001}),
        thresholdDays \in NumInputs({-1, 0}),
        minimumStars \in NumInputs({-1, 0}),
        analysisWindow \in NumInputs({-1, 0, 1}),
        users \in TrustedUsersInputs,
        onLowScore \in {"", "fail", "block"},
        newAccountAction \in {"", "block", "fail"} }

CallParseInputs ==
    /\ fn = "none"
    /\ \E inputs \in ParseInputsInputs :
        Call("parseInputs", [inputs |-> inputs], parseInputs(inputs))

\* sequences of at most two elements of a set
UpToTwo(S) == {<<>>} \cup { <<x>> : x \in S } \cup { <<x, y>> : x \in S, y \in S }

\* days before the analysis window of 12 months, on its first day and in it
WindowDays == {NowDay - 400, NowDay - 360, NowDay - 300}

\* pull requests closed or merged on the day they were made, and one made
\* before the window and merged in it
WindowPRs ==
    { MergedPR(day, 50, Repo(1, 100)) : day \in WindowDays }
        \cup { ClosedPR(day, 50) : day \in WindowDays }
        \cup { PullRequest("MERGED", TRUE, NowDay - 400, NowDay - 300, 50, Repo(1, 100)) }

WindowUsers ==
    { [EmptyUser(800, NowDay) EXCEPT
          !.pullRequests = prs, !.issues = issues, !.issueComments = comments] :
        prs \in UpToTwo(WindowPRs),
        issues \in UpToTwo({ Issue(day, 1, 0) : day \in WindowDays }),
        comments \in UpToTwo({ Comment(day, 1, 0, 0) : day \in {NowDay - 400, NowDay - 300} }) }

CallExtractAllMetrics ==
    /\ fn = "none"
    /\ \E user \in WindowUsers :
        LET sinceDate == Since(NowDay, DEFAULT_CONFIG.analysisWindowMonths)
        IN  Call("extractAllMetrics",
                 [ data |-> user, config |-> DEFAULT_CONFIG, sinceDate |-> sinceDate,
                   now |-> NowDay ],
                 extractAllMetrics(user, DEFAULT_CONFIG, sinceDate, NowDay))

SpecWindow == Init /\ [][CallExtractAllMetrics]_vars

\* final scores generateRecommendations is called with
RecommendationScores == {0, 299, 300, 1000}

CallGenerateRecommendations ==
    /\ fn = "none"
    /\ \E user \in ScoreProfiles \cup ScenarioProfiles, score \in RecommendationScores :
        \E metricsData \in { extractAllMetrics(user, DEFAULT_CONFIG,
                                                Since(NowDay, 12), NowDay) } :
            \E metrics \in { calculateAllMetrics(metricsData, DEFAULT_CONFIG) } :
                Call("generateRecommendations",
                     [metricsData |-> metricsData, metrics |-> metrics, score |-> score],
                     generateRecommendations(metricsData, metrics, score))

SpecRecommendations == Init /\ [][CallGenerateRecommendations]_vars

\* sequences of at most three elements of a set
UpToThree(S) == UpToTwo(S) \cup { <<x, y, z>> : x \in S, y \in S, z \in S }

\* pull requests merged today into repository 1 when it had 99 or 100 stars,
\* into repository 2 with 100 stars, into a repository that is null now; one
\* merged before the window; and one closed
RepoPRs ==
    { MergedPR(NowDay, 50, Repo(1, 99)), MergedPR(NowDay, 50, Repo(1, 100)),
      MergedPR(NowDay, 50, Repo(2, 100)), MergedPR(NowDay, 50, NullRepo),
      MergedPR(NowDay - 400, 50, Repo(3, 100)), ClosedPR(NowDay, 50) }

CallExtractRepoQualityData ==
    /\ fn = "none"
    /\ \E prs \in UpToThree(RepoPRs), minimumStars \in {0, 100} :
        LET user == [EmptyUser(800, NowDay) EXCEPT !.pullRequests = prs]
            sinceDate == Since(NowDay, 12)
        IN  Call("extractRepoQualityData",
                 [data |-> user, minimumStars |-> minimumStars, sinceDate |-> sinceDate],
                 extractRepoQualityData(user, minimumStars, sinceDate))

SpecRepos == Init /\ [][CallExtractRepoQualityData]_vars

\* days that pass before calculateScore is called a second time
LaterDays == {0, 2, 100}

\* a second invocation with the arguments of the first; new Date() has moved on
CallCalculateScoreAgain ==
    /\ fn = "calculateScore"
    /\ \E later \in LaterDays :
        Call("calculateScoreAgain",
             [ data |-> args.data, config |-> args.config, sinceDate |-> args.sinceDate,
               firstNow |-> args.now, secondNow |-> args.now + later ],
             [ first  |-> ret,
               second |-> calculateScore(args.data, args.config, args.sinceDate,
                                         args.now + later) ])

Next == CallComposeScore \/ CallCalculateScore

Spec == Init /\ [][Next]_vars

SpamCalls == CallDetectSpamPatterns \/ CallCalculateSpamPenalty \/ CallCalculateScore

SpecSpam == Init /\ [][SpamCalls]_vars

\* the inputs of a run: every on-low-score, dry-run and new-account-action
\* setting, with or without a trusted user and a trusted organization, and
\* one minimum-score that parseInputs rejects
RunInputs ==
    { [Inputs(EmptyJSON, EmptyStr, EmptyStr) EXCEPT
          !.trustedUsers = users, !.trustedOrgs = orgs, !.onLowScore = onLowScore,
          !.dryRun = dryRun, !.newAccountAction = newAccountAction] :
        users \in { UnsetList, ListStr(<<Piece("alice")>>) },
        orgs \in { UnsetList, ListStr(<<Piece("acme")>>) },
        onLowScore \in {"", "comment", "label", "comment-and-label", "fail", "none"},
        dryRun \in {"", "true"},
        newAccountAction \in {"", "require-review", "block"} }
        \cup { Inputs(EmptyJSON, BadStr, EmptyStr) }

Usernames == {"contributor", "alice", "dependabot[bot]"}

\* the contributors fetchContributorData returns: a new account without
\* activity (score 500), the new account of the spam scenario (294), the
\* same pull requests from an old account, and an old account in good standing
RunProfiles ==
    { EmptyUser(5, NowDay),
      [EmptyUser(5, NowDay) EXCEPT !.pullRequests = PRList(2, 13, 0, NowDay, 4)],
      [EmptyUser(400, NowDay) EXCEPT !.pullRequests = PRList(2, 13, 0, NowDay, 4)],
      [EmptyUser(400, NowDay) EXCEPT !.pullRequests = PRList(10, 0, 0, NowDay, 50)] }

RunBegin ==
    /\ fn = "none"
    /\ \E inputs \in RunInputs, hasContext \in BOOLEAN, username \in Usernames :
        LET parsed == parseInputs(inputs)
        IN  Call("run",
                 [ inputs |-> inputs, config |-> parsed.config, threw |-> parsed.throws,
                   hasContext |-> hasContext, username |-> username, now |-> NowDay ],
                 run(parsed, hasContext, username))

RunCheckOrgMembership ==
    /\ fn = "run"
    /\ ret.pc = "checkOrgMembership"
    /\ \E threw \in BOOLEAN, isMember \in BOOLEAN :
        ret' = runAfterOrgMembership(Thrown(ret, threw), args.username, threw, isMember)
    /\ UNCHANGED <<fn, args>>

RunFetchContributorData ==
    /\ fn = "run"
    /\ ret.pc = "fetchContributorData"
    /\ \E threw \in BOOLEAN, data \in RunProfiles :
        \E result \in { calculateScore(data, args.config,
                                       Since(args.now, args.config.analysisWindowMonths),
                                       args.now) } :
            ret' = runAfterFetch(Thrown(ret, threw), args.config, threw, result)
    /\ UNCHANGED <<fn, args>>

RunAddPRComment ==
    /\ fn = "run"
    /\ ret.pc = "addPRComment"
    /\ \E threw \in BOOLEAN : ret' = runAfterClientCall(Thrown(ret, threw), threw)
    /\ UNCHANGED <<fn, args>>

RunAddPRLabel ==
    /\ fn = "run"
    /\ ret.pc = "addPRLabel"
    /\ \E threw \in BOOLEAN : ret' = runAfterClientCall(Thrown(ret, threw), threw)
    /\ UNCHANGED <<fn, args>>

RunSteps ==
    \/ RunBegin
    \/ RunCheckOrgMembership
    \/ RunFetchContributorData
    \/ RunAddPRComment
    \/ RunAddPRLabel

SpecRun == Init /\ [][RunSteps]_vars

\* the last known rate-limit status: quota below or above the low-water
\* mark, the reset in the past, now, 30 s ahead or 2 minutes ahead
RateLimits ==
    { [remaining |-> remaining, resetAt |-> resetAt] :
        remaining \in {50, 500}, resetAt \in {-1, 0, 30, 120} }

Outcomes == {"success"} \cup RateLimitMessages \cup TransientMessages \cup FatalMessages

RetryBegin ==
    /\ fn = "none"
    /\ \E maxAttempts \in 1..MaxAttempts, rateLimit \in RateLimits :
        Call("executeWithRetry", [maxAttempts |-> maxAttempts, rateLimit |-> rateLimit],
             executeWithRetry(rateLimit, 0))

RetrySend ==
    /\ fn = "executeWithRetry"
    /\ ret.pc = "ready"
    /\ ret' = sendRequest(ret)
    /\ UNCHANGED <<fn, args>>

RetryReceive ==
    /\ fn = "executeWithRetry"
    /\ ret.pc = "inFlight"
    /\ \E outcome \in Outcomes :
        ret' = afterRequest(ret, args.maxAttempts, args.rateLimit, outcome)
    /\ UNCHANGED <<fn, args>>

RetryWake ==
    /\ fn = "executeWithRetry"
    /\ ret.pc = "waiting"
    /\ ret' = afterWait(ret)
    /\ UNCHANGED <<fn, args>>

RetrySteps == RetryBegin \/ RetrySend \/ RetryReceive \/ RetryWake

\* a request in flight is answered or times out, and a timer fires
SpecRetry == Init /\ [][RetrySteps]_vars /\ WF_vars(RetrySteps)

SpecInputs == Init /\ [][CallParseInputs]_vars

ClockCalls == CallCalculateScore \/ CallCalculateScoreAgain

SpecClock == Init /\ [][ClockCalls]_vars

DecayCalls == CallCalculateDecayFactor \/ CallApplyDecayTowardBaseline

SpecDecay == Init /\ [][DecayCalls]_vars

----------------------------------------------------------------------------
(* Properties of the metric normalizers (SpecMetrics) *)

NormalizerCalls ==
    { "calculatePRHistoryMetric", "calculateRepoQualityMetric",
      "calculatePositiveReactionsMetric", "calculateNegativeReactionsMetric",
      "calculateAccountAgeMetric", "calculateActivityConsistencyMetric",
      "calculateIssueEngagementMetric", "calculateCodeReviewMetric" }

TotalReactions(data) ==
    data.positiveReactions + data.negativeReactions + data.neutralReactions

\* the call was made on a summary with no data for its metric
NoData ==
    \/ fn = "calculatePRHistoryMetric" /\ args.data.totalPRs = 0
    \/ fn = "calculatePositiveReactionsMetric" /\ TotalReactions(args.data) = 0
    \/ fn = "calculateNegativeReactionsMetric" /\ TotalReactions(args.data) = 0
    \/ fn = "calculateIssueEngagementMetric" /\ args.data.issuesCreated = 0
    \/ fn = "calculateCodeReviewMetric" /\ args.data.reviewsGiven = 0
    \/ fn = "calculateRepoQualityMetric" /\ Len(args.data.contributedRepos) = 0

\* C3: a normalizer called on a summary with no data (zero PRs, zero
\* reactions, zero issues, zero reviews, no contributed repos) returns
\* normalizedScore 50 and weightedScore 50 x weight, whatever the weight.
C3_NoDataIsNeutral ==
    NoData => /\ ret.normalizedScore = RI(50)
              /\ ret.weightedScore = RMul(RI(50), args.weight)

\* a no-data call with a weight that tells 50 x weight from 50 and from 0
C3_Witness ==
    /\ fn = "calculateCodeReviewMetric"
    /\ args.data.reviewsGiven = 0
    /\ args.weight = R(15, 100)
    /\ ret.weightedScore = R(15, 2)

\* C6: a PR-history summary without any resolved pull request (none merged,
\* none closed without merge) is scored neutral, also when the contributor has
\* open pull requests in the window.
C6_NoResolvedPRsIsNeutral ==
    (/\ fn = "calculatePRHistoryMetric"
     /\ args.data.mergedPRs = 0
     /\ args.data.closedWithoutMerge = 0) => ret.normalizedScore = RI(50)

MetricResultOk(m, weight) ==
    /\ RGeq(m.normalizedScore, RI(0))
    /\ RLeq(m.normalizedScore, RI(100))
    /\ m.weight = weight
    /\ m.weightedScore = RMul(m.normalizedScore, weight)

----------------------------------------------------------------------------
(* Properties of the spam detector (SpecSpam) *)

\* the patterns calculateScore detects for the contributor it is called with
SpamPatternsOf(a) ==
    detectSpamPatterns(
        extractPRHistoryData(a.data, a.sinceDate),
        extractAccountData(a.data, a.config.analysisWindowMonths, a.now))

SpamTypes == {"short-prs", "burst-closed", "new-account-burst"}

MinInt(a, b) == IF a <= b THEN a ELSE b

\* C8: detectSpamPatterns reports each of its three kinds at most once and
\* nothing else; short-prs exactly when there are PRs and at least 70% of
\* them are very short, worth min(50 + (ratio - 0.7) * 100, 75); burst-closed
\* exactly when at least 10 PRs were closed unmerged and the merge rate is
\* below 0.2, worth min(50 + 2 * closed, 75); new-account-burst exactly when
\* the account is younger than 7 days with more than 5 PRs, worth 30; and the
\* list is empty when no rule fires.
C8_SpamRules ==
    fn = "detectSpamPatterns" =>
        LET ph == args.prHistory
            total == ph.totalPRs
            Has(t) == \E i \in 1..Len(ret) : ret[i].type = t
            Points(t) == { ret[i].penalty : i \in { j \in 1..Len(ret) : ret[j].type = t } }
            shortFires == total > 0 /\ 10 * ph.veryShortPRs >= 7 * total
            burstFires == /\ ph.closedWithoutMerge >= 10
                          /\ 5 * ph.mergedPRs < ph.mergedPRs + ph.closedWithoutMerge
            newFires == args.account.ageInDays < 7 /\ total > 5
        IN  /\ \A i, j \in 1..Len(ret) : ret[i].type = ret[j].type => i = j
            /\ \A i \in 1..Len(ret) : ret[i].type \in SpamTypes
            /\ Has("short-prs") <=> shortFires
            /\ shortFires =>
                   Points("short-prs") =
                       { R(MinInt(100 * ph.veryShortPRs - 20 * total, 75 * total), total) }
            /\ Has("burst-closed") <=> burstFires
            /\ burstFires =>
                   Points("burst-closed") = { RI(MinInt(50 + 2 * ph.closedWithoutMerge, 75)) }
            /\ Has("new-account-burst") <=> newFires
            /\ newFires => Points("new-account-burst") = { RI(30) }
            /\ (~shortFires /\ ~burstFires /\ ~newFires) => ret = <<>>

\* all three rules fire, the short-PR rule below its cap
C8_Witness ==
    /\ fn = "detectSpamPatterns"
    /\ Len(ret) = 3
    /\ args.prHistory.totalPRs = 15 /\ args.prHistory.veryShortPRs = 12
    /\ args.prHistory.closedWithoutMerge = 13
    /\ ret[1].penalty = RI(60)

PenaltySum(patterns) == SumSeq([i \in 1..Len(patterns) |-> patterns[i].penalty])

AllThreeFire(patterns) == { patterns[i].type : i \in 1..Len(patterns) } = SpamTypes

\* the score that round(500 + (rawScore - penalty - 500) * decayFactor),
\* clamped to 0..1000, allows: score is the clamped nearest integer of x
IsClampedRound(score, x) ==
    /\ score \in 0..1000
    /\ score > 0 => RLeq(R(2 * score - 1, 2), x)
    /\ score < 1000 => RLt(x, R(2 * score + 1, 2))

Decayed(rawScore, penalty, decayFactor) ==
    RAdd(RI(500), RMul(RSub(RSub(RI(rawScore), penalty), RI(500)), decayFactor))

\* the contributor of the spam scenario: a 5-day-old account with 15 very
\* short PRs, 13 of them closed without merge, and no other activity
SpamScenario ==
    /\ fn = "calculateScore"
    /\ args.now - args.data.createdAt = 5
    /\ args.data.pullRequests = PRList(2, 13, 0, args.now, 4)
    /\ args.data.reviewCount = 0
    /\ args.data.issueComments = <<>>
    /\ args.data.issues = <<>>
    /\ args.config.weights = DEFAULT_WEIGHTS

\* the penalty function of C9: the sum capped at 150, 0 for no penalties,
\* never smaller when a penalty is added or grows
SpamPenaltyCapped ==
    fn = "calculateSpamPenalty" =>
        LET ps == args.penalties
            sum == PenaltySum(ps)
        IN  /\ ret = IF RLeq(sum, RI(150)) THEN sum ELSE RI(150)
            /\ ps = <<>> => ret = RI(0)
            /\ RLeq(ret, RI(150))
            /\ \A p \in PenaltySet : RGeq(calculateSpamPenalty(Append(ps, p)), ret)
            /\ \A i \in 1..Len(ps), p \in PenaltySet :
                   RGeq(p.penalty, ps[i].penalty) =>
                       RGeq(calculateSpamPenalty([ps EXCEPT ![i] = p]), ret)

\* C9 as stated: calculateSpamPenalty is min(sum, 150), 0 for no penalties,
\* never above 150 and monotone; and whenever all three rules fire the total
\* is exactly 150 and the final score lies below 500.
C9_AllThreeBelowBaseline ==
    /\ SpamPenaltyCapped
    /\ (fn = "calculateScore" /\ AllThreeFire(SpamPatternsOf(args))) =>
           /\ calculateSpamPenalty(SpamPatternsOf(args)) = RI(150)
           /\ ret.score < 500

\* C9 amended: calculateSpamPenalty is min(sum, 150), 0 for no penalties,
\* never above 150 and monotone; whenever all three rules fire the total is
\* exactly 150, the final score is the one the penalty of 150 gives and lies
\* below 500 exactly when the raw score lies below 650; it does so for the
\* scenario's contributor, who has no other activity, under the default weights.
C9_SpamPenalty ==
    /\ SpamPenaltyCapped
    /\ (fn = "calculateScore" /\ AllThreeFire(SpamPatternsOf(args))) =>
           /\ RGeq(PenaltySum(SpamPatternsOf(args)), RI(150))
           /\ calculateSpamPenalty(SpamPatternsOf(args)) = RI(150)
           /\ IsClampedRound(ret.score, Decayed(ret.rawScore, RI(150), ret.decayFactor))
           /\ ret.score < 500 <=> ret.rawScore < 650
    /\ SpamScenario => AllThreeFire(SpamPatternsOf(args)) /\ ret.score < 500

\* the scenario's contributor under the default configuration
C9_Witness ==
    /\ SpamScenario
    /\ args.config.minimumScore = 300
    /\ ret.rawScore = 444
    /\ ret.score = 294
    /\ ~ret.passed

----------------------------------------------------------------------------
(* Properties of the decay factor (SpecDecay) *)

\* C10: calculateDecayFactor is 1.0 for an empty list and otherwise
\* 0.8 + 0.2 * (recent / total), recent counting the dates of the last three
\* months; it lies in [0.8, 1.0], is 1.0 when every date is recent, 0.8 when
\* none is, and strictly between the two for a mix.
C10_DecayFactor ==
    fn = "calculateDecayFactor" =>
        LET dates == args.activityDates
            total == Len(dates)
            recent == Cardinality({ i \in 1..total : dates[i] >= args.now - 90 })
        IN  /\ total = 0 => ret = RI(1)
            /\ total > 0 => ret[1] * 5 * total = (4 * total + recent) * ret[2]
            /\ RLeq(R(8, 10), ret) /\ RLeq(ret, RI(1))
            /\ (total > 0 /\ recent = total) => ret = RI(1)
            /\ (total > 0 /\ recent = 0) => ret = R(8, 10)
            /\ (0 < recent /\ recent < total) => RLt(R(8, 10), ret) /\ RLt(ret, RI(1))

\* one recent date among four
C10_Witness ==
    /\ fn = "calculateDecayFactor"
    /\ args.activityDates = << args.now, args.now - 91, args.now - 200, args.now - 200 >>
    /\ ret = R(17, 20)

DecayCall == fn = "applyDecayTowardBaseline"

\* C11 as stated: applyDecayTowardBaseline returns the score it was given
\* when the factor is 1.0, returns 500 for 500 under every factor, and maps an
\* integer score above (below) 500 to a result above (below) 500 that is not
\* above (below) the score.
C11_DecayNoOpAtOne ==
    DecayCall =>
        /\ args.decayFactor = RI(1) => RI(ret) = args.score
        /\ args.score = RI(500) => ret = 500
        /\ (RIsInt(args.score) /\ RGt(args.score, RI(500))) =>
               ret > 500 /\ RLeq(RI(ret), args.score)
        /\ (RIsInt(args.score) /\ RLt(args.score, RI(500))) =>
               ret < 500 /\ RGeq(RI(ret), args.score)

\* C11 amended: with the factor 1.0 applyDecayTowardBaseline returns the
\* score rounded to the nearest integer, which is the score itself when the
\* score is an integer; it returns 500 for 500 under every factor; and it maps
\* an integer score above (below) 500 to a result above (below) 500 that is
\* not above (below) the score.
C11_DecayTowardBaseline ==
    DecayCall =>
        /\ args.decayFactor = RI(1) =>
               /\ RLeq(R(2 * ret - 1, 2), args.score)
               /\ RLt(args.score, R(2 * ret + 1, 2))
               /\ RIsInt(args.score) => RI(ret) = args.score
        /\ args.score = RI(500) => ret = 500
        /\ (RIsInt(args.score) /\ RGt(args.score, RI(500))) =>
               ret > 500 /\ RLeq(RI(ret), args.score)
        /\ (RIsInt(args.score) /\ RLt(args.score, RI(500))) =>
               ret < 500 /\ RGeq(RI(ret), args.score)

\* the raw score 500 less a penalty of 53.33, with the factor 1.0
C11_Witness ==
    /\ DecayCall
    /\ args.score = R(1340, 3)
    /\ args.decayFactor = RI(1)
    /\ ret = 447

\* C12: with a factor below 1.0, applyDecayTowardBaseline returns a result
\* strictly closer to 500 than the score, for every score other than 500.
C12_DecayStrictlyCloser ==
    (DecayCall /\ RLt(args.decayFactor, RI(1)) /\ args.score # RI(500)) =>
        LET before == RSub(args.score, RI(500))
            after == ret - 500
        IN  RLt(RI(Abs(after)), IF RLt(before, RI(0)) THEN RSub(RI(0), before) ELSE before)

----------------------------------------------------------------------------
(* Properties of the composed score (Spec) *)

ScoreCalls == {"composeScore", "calculateScore"}

\* C1: whatever the eight metric results (scores 0..100, any weights, also
\* weights that do not sum to 1), the spam penalties and the decay factor in
\* [0.8, 1.0], the composed score is an integer from 0 to 1000.
C1_ScoreInRange ==
    fn \in ScoreCalls => ret.score \in 0..1000

\* zero weights and all three penalties: 0 - 150 is clamped to 0
C1_Witness ==
    /\ fn = "composeScore"
    /\ Len(args.spamPatterns) = 3
    /\ args.decayFactor = RI(1)
    /\ ret.rawScore = 0
    /\ ret.score = 0

\* C2: rawScore is round(10 * sum of the weighted scores); the penalty
\* min(sum of points, 150) is subtracted before the decay; the score is
\* clamp(round(500 + (rawScore - penalty - 500) * decayFactor), 0, 1000); and
\* passed holds exactly when the score is at least config.minimumScore.
C2_CompositionOrder ==
    fn \in ScoreCalls =>
        LET metrics == IF fn = "composeScore" THEN args.metrics ELSE ret.metrics
            patterns == IF fn = "composeScore" THEN args.spamPatterns
                        ELSE SpamPatternsOf(args)
            sum == SumSeq([i \in 1..Len(metrics) |-> metrics[i].weightedScore])
            points == PenaltySum(patterns)
            penalty == IF RLeq(points, RI(150)) THEN points ELSE RI(150)
            tenfold == RMul(RI(10), sum)
        IN  /\ RLeq(R(2 * ret.rawScore - 1, 2), tenfold)
            /\ RLt(tenfold, R(2 * ret.rawScore + 1, 2))
            /\ fn = "composeScore" => ret.decayFactor = args.decayFactor
            /\ IsClampedRound(ret.score, Decayed(ret.rawScore, penalty, ret.decayFactor))
            /\ ret.threshold = args.config.minimumScore
            /\ ret.passed <=> ret.score >= args.config.minimumScore

\* a penalty of 53.33 on a raw score of 500, decayed by 0.8: 500 - 42.67
C2_Witness ==
    /\ fn = "composeScore"
    /\ Len(args.spamPatterns) = 1
    /\ args.decayFactor = R(8, 10)
    /\ args.config.minimumScore = 300
    /\ ret.rawScore = 500
    /\ ret.score = 457
    /\ ret.passed

ZeroActivity(user) ==
    /\ user.pullRequests = <<>>
    /\ user.reviewCount = 0
    /\ user.issueComments = <<>>
    /\ user.issues = <<>>
    /\ \A w \in 1..Len(user.calendarWeeks) : \A d \in 1..Len(user.calendarWeeks[w]) :
           user.calendarWeeks[w][d].contributionCount = 0

\* C4: a brand-new account with no activity at all, scored with the default
\* weights, gets 50 on all eight metrics, no spam penalty and decay factor
\* 1.0, so its final score is 500, with isNewAccount and hasLimitedData true.
C4_NewAccountIsBaseline ==
    (/\ fn = "calculateScore"
     /\ ZeroActivity(args.data)
     /\ args.now - args.data.createdAt < 30
     /\ args.config.weights = DEFAULT_WEIGHTS
     /\ args.config.newAccountThresholdDays = 30) =>
        /\ Len(ret.metrics) = 8
        /\ \A i \in 1..8 : ret.metrics[i].normalizedScore = RI(50)
        /\ SpamPatternsOf(args) = <<>>
        /\ ret.decayFactor = RI(1)
        /\ ret.rawScore = 500
        /\ ret.score = 500
        /\ ret.isNewAccount
        /\ ret.hasLimitedData

C4_Witness ==
    /\ fn = "calculateScore"
    /\ ZeroActivity(args.data)
    /\ args.now - args.data.createdAt = 0
    /\ args.config = DEFAULT_CONFIG
    /\ ret.score = 500
    /\ ret.passed
    /\ ret.isNewAccount
    /\ ret.totalDataPoints = 1

\* C5: under every weights configuration parseInputs accepts, partial JSON
\* overrides included, a contributor whose eight metrics are all neutral and
\* who shows no spam pattern gets the final score 500.
C5_NeutralIsBaseline ==
    (/\ fn = "calculateScore"
     /\ \A i \in 1..Len(ret.metrics) : ret.metrics[i].normalizedScore = RI(50)
     /\ SpamPatternsOf(args) = <<>>) =>
        ret.score = 500

----------------------------------------------------------------------------
(* Properties of repeated invocations (SpecClock) *)

\* C13: two invocations of calculateScore with the same contributor data,
\* config and sinceDate return the same score, rawScore, decayFactor, passed,
\* isNewAccount, hasLimitedData, metric results and recommendations, whenever
\* each of them runs.
C13_Deterministic ==
    fn = "calculateScoreAgain" =>
        /\ ret.first.score = ret.second.score
        /\ ret.first.rawScore = ret.second.rawScore
        /\ ret.first.decayFactor = ret.second.decayFactor
        /\ ret.first.passed = ret.second.passed
        /\ ret.first.isNewAccount = ret.second.isNewAccount
        /\ ret.first.hasLimitedData = ret.second.hasLimitedData
        /\ ret.first.metrics = ret.second.metrics
        /\ ret.first.recommendations = ret.second.recommendations

----------------------------------------------------------------------------
(* Properties of the action's run (SpecRun) *)

HasEvent(e) == Contains(ret.events, e)

WhitelistOutputsSet ==
    /\ Len(ret.outputs) = 1
    /\ ret.outputs[1].score = 1000
    /\ ret.outputs[1].passed
    /\ ret.outputs[1].wasWhitelisted

TrustedAuthor ==
    /\ fn = "run"
    /\ ~args.threw
    /\ args.hasContext
    /\ Contains(args.config.trustedUsers, args.username)

\* C14: when the PR author is in trustedUsers, run makes no client call at
\* all, computes no score and ends with the outputs score = 1000, passed =
\* true, was-whitelisted = true; when checkOrgMembership finds the author in
\* a trusted organization, that call is the only client call, no score is
\* computed, no comment or label is made and the outputs are the same; and
\* when organizations are trusted the data is fetched only after the
\* membership check.
C14_WhitelistBypass ==
    fn = "run" =>
        /\ TrustedAuthor =>
               /\ ret.pc = "done"
               /\ ret.events = <<"setWhitelistOutputs">>
               /\ ret.result = <<>>
               /\ WhitelistOutputsSet
        /\ ret.isMember =>
               /\ ret.pc = "done"
               /\ ret.events = <<"checkOrgMembership", "setWhitelistOutputs">>
               /\ ret.result = <<>>
               /\ WhitelistOutputsSet
        /\ \A i \in 1..Len(ret.events) :
               (ret.events[i] = "fetchContributorData" /\ Len(args.config.trustedOrgs) > 0) =>
                   \E j \in 1..(i - 1) : ret.events[j] = "checkOrgMembership"

\* an author outside trustedUsers whom the membership check finds in acme
C14_Witness ==
    /\ fn = "run"
    /\ args.username = "contributor"
    /\ args.config.trustedOrgs = <<"acme">>
    /\ args.config.onLowScore = "comment-and-label"
    /\ ret.isMember
    /\ ret.pc = "done"
    /\ WhitelistOutputsSet

LowScoreRunDone ==
    /\ fn = "run"
    /\ ret.pc = "done"
    /\ Len(ret.result) = 1
    /\ ~ret.result[1].passed

\* C15: a run that scored the contributor below the threshold has taken the
\* configured on-low-score action when it ends, whatever new-account-action
\* is set and whatever the account's age (runs in dry-run mode and runs in
\* which a client call failed aside).
C15_LowScoreActionTaken ==
    (LowScoreRunDone /\ ~args.config.dryRun /\ ~HasEvent("setFailed:error")) =>
        /\ args.config.onLowScore = "comment" => HasEvent("addPRComment")
        /\ args.config.onLowScore = "label" => HasEvent("addPRLabel")
        /\ args.config.onLowScore = "comment-and-label" =>
               HasEvent("addPRComment") /\ HasEvent("addPRLabel")
        /\ args.config.onLowScore = "fail" => HasEvent("setFailed:low-score")

\* C16: with dryRun true, run never posts a comment, never adds a label and
\* never fails the job for a low score or a new account, whatever
\* on-low-score and new-account-action are set.
C16_DryRunTakesNoAction ==
    (fn = "run" /\ args.config.dryRun) =>
        /\ ~HasEvent("addPRComment")
        /\ ~HasEvent("addPRLabel")
        /\ ~HasEvent("setFailed:low-score")
        /\ ~HasEvent("setFailed:new-account")

----------------------------------------------------------------------------
(* Properties of the retry wrapper (SpecRetry) *)

RetryCall == fn = "executeWithRetry"

RetryEnded == RetryCall /\ ret.pc \in {"returned", "thrown"}

\* C17: a request that fails with a fatal error (neither rate-limit nor
\* transient) is the last one: when the first request fails so, the request
\* was made exactly once and that error is thrown; a request that succeeds is
\* the last one and its value is returned, so a first-try success is one call.
C17_FatalNotRetried ==
    RetryCall =>
        \A i \in 1..Len(ret.calls) :
            /\ ret.calls[i] \in FatalMessages =>
                   /\ i = Len(ret.calls)
                   /\ ret.attempts = i
                   /\ ret.pc = "thrown"
                   /\ ret.error = ret.calls[i]
            /\ ret.calls[i] = "success" =>
                   /\ i = Len(ret.calls)
                   /\ ret.attempts = i
                   /\ ret.pc = "returned"
                   /\ ret.value = "success"

\* up to three attempts allowed, the first request answered Not found
C17_Witness ==
    /\ RetryCall
    /\ args.maxAttempts = 3
    /\ ret.calls = <<"Not found">>
    /\ ret.attempts = 1
    /\ ret.pc = "thrown"
    /\ ret.error = "Not found"

RetryBounded ==
    RetryCall =>
        /\ ret.attempts <= args.maxAttempts
        /\ ret.inFlight \in {0, 1}
        /\ ret.attempts = Len(ret.calls) + ret.inFlight
        /\ \A i \in 1..Len(ret.waits) :
               LET w == ret.waits[i]
                   untilReset == args.rateLimit.resetAt - w.at
               IN  /\ w.seconds >= 0
                   /\ w.seconds <= 60
                   /\ w.kind # "transient" =>
                          /\ untilReset > 0 => w.seconds <= untilReset
                          /\ untilReset <= 0 => w.seconds = 0
                          /\ args.rateLimit.remaining > 100 => w.seconds = 0
        /\ ret.pc = "thrown" => ret.error = ret.calls[Len(ret.calls)]
        /\ (/\ Len(ret.calls) = args.maxAttempts
            /\ \A i \in 1..Len(ret.calls) : ret.calls[i] # "success") =>
               /\ ret.pc = "thrown"
               /\ ret.error = ret.calls[args.maxAttempts]

\* C18: executeWithRetry always ends; it has at most one request in flight
\* and issues at most the configured number of requests; every wait is at
\* most 60 s, a rate-limit wait also at most the time until resetAt, and 0
\* when resetAt has passed or the remaining quota is above the low-water
\* mark; and when every attempt failed the last error is thrown.
C18_RetryTerminates ==
    /\ []RetryBounded
    /\ RetryCall ~> RetryEnded

\* three rate-limit failures in a row, each followed by a wait to the reset
C18_Witness ==
    /\ RetryCall
    /\ args.maxAttempts = 3
    /\ args.rateLimit = [remaining |-> 50, resetAt |-> 30]
    /\ Len(ret.calls) = 3
    /\ \A i \in 1..3 : ret.calls[i] = "API rate limit exceeded"
    /\ ret.pc = "thrown"
    /\ Len(ret.waits) = 3
    /\ ret.waits[1].seconds = 30
    /\ ret.waits[3].seconds = 0

----------------------------------------------------------------------------
(* The curves of the merge-rate and reaction normalizers (SpecMetrics) *)

\* the merge rates n/d of up to MaxPRs resolved pull requests
MergeRates == { R(n, d) : n \in 0..MaxPRs, d \in 1..MaxPRs }

\* the value, times its denominator, is num: value = num / den
IsQuotient(value, num, den) == value[1] * den = num * value[2]

C20_ReactionCurves ==
    /\ fn = "calculatePositiveReactionsMetric" =>
           LET n == args.data.positiveRatio[1]
               d == args.data.positiveRatio[2]
               score == ret.normalizedScore
           IN  IF TotalReactions(args.data) < 5 THEN score = RI(50)
               ELSE /\ 10 * n >= 8 * d => score = RI(100)
                    /\ (10 * n >= 6 * d /\ 10 * n < 8 * d) => score = RI(75)
                    /\ (10 * n >= 4 * d /\ 10 * n < 6 * d) => score = RI(50)
                    /\ 10 * n < 4 * d => IsQuotient(score, 125 * n, d)
    /\ fn = "calculateNegativeReactionsMetric" =>
           LET k == args.data.negativeReactions
               t == TotalReactions(args.data)
               score == ret.normalizedScore
           IN  IF t < 5 THEN score = RI(50)
               ELSE /\ 10 * k < t => score = RI(50)
                    /\ (10 * k >= t /\ 10 * k < 2 * t) => score = RI(40)
                    /\ (10 * k >= 2 * t /\ 10 * k < 3 * t) => score = RI(25)
                    /\ (10 * k >= 3 * t /\ 100 * k < 55 * t) =>
                           IsQuotient(score, 55 * t - 100 * k, t)
                    /\ 100 * k >= 55 * t => score = RI(0)

\* 4 negative reactions of 10: 25 - (0.4 - 0.3) * 100 = 15
C20_Witness ==
    /\ fn = "calculateNegativeReactionsMetric"
    /\ args.data.negativeReactions = 4
    /\ TotalReactions(args.data) = 10
    /\ ret.normalizedScore = RI(15)

----------------------------------------------------------------------------
(* End-to-end scenario of an established contributor (Spec) *)

\* calculateScore was called at the default weights for a contributor with 10
\* pull requests in the window, 8 merged and 2 closed, no reactions, an
\* account of 400 days, 10 active months of 12, 15 reviews and 1 quality
\* repository
EstablishedContributor ==
    /\ fn = "calculateScore"
    /\ args.config.weights = DEFAULT_WEIGHTS
    /\ LET d == extractAllMetrics(args.data, args.config, args.sinceDate, args.now)
       IN  /\ d.prHistory.totalPRs = 10
           /\ d.prHistory.mergedPRs = 8
           /\ d.prHistory.closedWithoutMerge = 2
           /\ TotalReactions(d.reactions) = 0
           /\ d.account.ageInDays = 400
           /\ d.account.monthsWithActivity = 10
           /\ d.account.totalMonthsInWindow = 12
           /\ d.codeReviews.reviewsGiven = 15
           /\ d.repoQuality.qualityRepoCount = 1

\* C21, as claimed: for that contributor the merge-rate sub-score is 100, the
\* account-age sub-score is 100 and the raw score is above 500.
C21_Scenario1 ==
    EstablishedContributor =>
        /\ Find(ret.metrics, "prMergeRate")[1].normalizedScore = RI(100)
        /\ Find(ret.metrics, "accountAge")[1].normalizedScore = RI(100)
        /\ ret.rawScore > 500

\* C21, amended: for that contributor the merge-rate sub-score is 75 (a merge
\* rate of 0.8 lies on the linear piece between 0.7 and 0.9), the account-age
\* sub-score is 100 and the raw score is above 500.
C21_Scenario1MergeRate75 ==
    EstablishedContributor =>
        /\ Find(ret.metrics, "prMergeRate")[1].normalizedScore = RI(75)
        /\ Find(ret.metrics, "accountAge")[1].normalizedScore = RI(100)
        /\ ret.rawScore > 500

C21_Witness ==
    /\ EstablishedContributor
    /\ Find(ret.metrics, "prMergeRate")[1].rawValue = R(8, 10)
    /\ ret.rawScore > 500

----------------------------------------------------------------------------
(* Properties of parseInputs (SpecInputs) *)

ParsedInputs == fn = "parseInputs" /\ ~ret.throws

\* C22: when parseInputs returns, trusted-users set to the empty string in
\* the workflow gives trustedUsers = [], trusted-users left unset gives the
\* five default bots, and a value with names gives exactly its names.
C22_EmptyDisablesDefaults ==
    ParsedInputs =>
        LET input == args.inputs.trustedUsers
        IN  /\ (input.set /\ input.pieces = <<>>) => ret.config.trustedUsers = <<>>
            /\ ~input.set =>
                   /\ ret.config.trustedUsers = DEFAULT_TRUSTED_USERS
                   /\ Len(ret.config.trustedUsers) = 5
            /\ input = ListStr(<<Piece("user1"), Piece("user2")>>) =>
                   ret.config.trustedUsers = <<"user1", "user2">>
            /\ input = ListStr(<<Padded("user1"), Piece(""), Piece("dependabot[bot]")>>) =>
                   ret.config.trustedUsers = <<"user1", "dependabot[bot]">>

----------------------------------------------------------------------------
(* Ranges of the weights and of the raw score (Spec) *)

\* C23: in the result of calculateScore under a configuration parseInputs
\* returned, every metric's weight lies in [0, 1], the weighted sum of the
\* metrics lies in 0..100 and rawScore lies in 0..1000.
C23_RawScoreInRange ==
    (fn = "calculateScore" /\ args.config \in Configs) =>
        LET weightedSum ==
                SumSeq([i \in 1..Len(ret.metrics) |-> ret.metrics[i].weightedScore])
        IN  /\ \A i \in 1..Len(ret.metrics) :
                   /\ RGeq(ret.metrics[i].weight, RI(0))
                   /\ RLeq(ret.metrics[i].weight, RI(1))
            /\ RGeq(weightedSum, RI(0))
            /\ RLeq(weightedSum, RI(100))
            /\ ret.rawScore \in 0..1000

\* the number a numeric input stands for: its default when it is empty
NumberOf(value, defaultValue) == IF value.kind = "num" THEN value.n ELSE defaultValue

\* every numeric input parses as a number, and the numbers are within limits
NumericInputsValid ==
    LET in == args.inputs
    IN  /\ in.minimumScore.kind # "bad"
        /\ in.minimumStars.kind # "bad"
        /\ in.analysisWindow.kind # "bad"
        /\ in.newAccountThresholdDays.kind # "bad"
        /\ NumberOf(in.minimumScore, 300) \in 0..1000
        /\ NumberOf(in.minimumStars, 100) >= 0
        /\ NumberOf(in.analysisWindow, 12) > 0
        /\ NumberOf(in.newAccountThresholdDays, 30) >= 0

\* C24: parseInputs returns a configuration exactly when every numeric input
\* parses and minimumScore is in 0..1000, minimumStars >= 0,
\* analysisWindowMonths > 0 and newAccountThresholdDays >= 0, and throws
\* otherwise; minimum-score 0 and 1000 are accepted; an invalid on-low-score
\* or new-account-action becomes the default with a warning; weights that do
\* not sum to 1 give a warning only.
C24_InputValidation ==
    fn = "parseInputs" =>
        LET in == args.inputs
        IN  /\ ret.throws <=> ~NumericInputsValid
            /\ ~ret.throws =>
                   /\ ret.config.minimumScore = NumberOf(in.minimumScore, 300)
                   /\ ret.config.minimumStars = NumberOf(in.minimumStars, 100)
                   /\ ret.config.analysisWindowMonths = NumberOf(in.analysisWindow, 12)
                   /\ ret.config.newAccountThresholdDays
                          = NumberOf(in.newAccountThresholdDays, 30)
                   /\ in.onLowScore = "block" =>
                          /\ ret.config.onLowScore = "comment"
                          /\ "on-low-score" \in ret.warnings
                   /\ in.onLowScore = "fail" =>
                          /\ ret.config.onLowScore = "fail"
                          /\ "on-low-score" \notin ret.warnings
                   /\ in.newAccountAction = "fail" =>
                          /\ ret.config.newAccountAction = "neutral"
                          /\ "new-account-action" \in ret.warnings
                   /\ in.newAccountAction = "block" =>
                          /\ ret.config.newAccountAction = "block"
                          /\ "new-account-action" \notin ret.warnings
                   /\ LET diff == RSub(SumOver(ret.config.weights, MetricNames), RI(1))
                      IN  "weights-sum" \in ret.warnings
                              <=> ~(RLt(R(-1, 100), diff) /\ RLt(diff, R(1, 100)))

\* minimum-score 1000, an on-low-score that is no action, and weights that
\* sum to 0.85: a configuration is returned, with two warnings
C24_Witness ==
    /\ fn = "parseInputs"
    /\ ~ret.throws
    /\ args.inputs.minimumScore = NumStr(1000)
    /\ ret.config.minimumScore = 1000
    /\ args.inputs.onLowScore = "block"
    /\ ret.config.onLowScore = "comment"
    /\ SumOver(ret.config.weights, MetricNames) = R(85, 100)
    /\ ret.warnings = {"on-low-score", "weights-sum"}

----------------------------------------------------------------------------
(* The analysis window (SpecWindow) *)

\* the elements of a sequence dated on or after sinceDate
InWindow(s, Date(_)) == SelectSeq(s, LAMBDA x : Date(x) >= args.sinceDate)

CreatedAt(x) == x.createdAt

\* C25: extractAllMetrics counts only what is dated in the window: the pull
\* requests, issues and comments (with their reactions) made on or after
\* sinceDate; and the merged pull requests grouped by repository are the
\* merged pull requests the PR history counts, so that no pull request is
\* inside the window for one extractor and outside it for the other.
C25_AllInWindow ==
    fn = "extractAllMetrics" =>
        LET prs == InWindow(args.data.pullRequests, CreatedAt)
            issues == InWindow(args.data.issues, CreatedAt)
            comments == InWindow(args.data.issueComments, CreatedAt)
            grouped == ret.repoQuality.contributedRepos
        IN  /\ ret.prHistory.totalPRs = Len(prs)
            /\ ret.issueEngagement.issuesCreated = Len(issues)
            /\ ret.reactions.totalComments = Len(comments)
            /\ TotalReactions(ret.reactions)
                   = SumInts([i \in 1..Len(comments) |-> Len(comments[i].reactions)])
            /\ SumInts([i \in 1..Len(grouped) |-> grouped[i].mergedPRCount])
                   = ret.prHistory.mergedPRs

----------------------------------------------------------------------------
(* Recommendations (SpecRecommendations) *)

Recommended(message) == \E i \in 1..Len(ret) : ret[i] = message

\* the normalized score of a metric the call was given
ScoreOf(name) == Find(args.metrics, name)[1].normalizedScore

Fallback == "Build your GitHub profile through meaningful contributions"

\* the message of each metric family
FamilyMessage ==
    [ prMergeRate         |-> "Improve PR quality to increase merge rate",
      repoQuality         |-> "Consider contributing to established open source projects",
      codeReviews         |-> "Participate in code reviews",
      negativeReactions   |-> "Focus on constructive communication",
      accountAge          |-> "Continue building your contribution history",
      activityConsistency |-> "Maintain consistent activity over time" ]

\* every message is a family's or the fallback, none is given twice, and the
\* fallback is given only for a score below 300 and then alone
MessagesAndFallback ==
    /\ \A i \in 1..Len(ret) :
           \/ ret[i] = Fallback
           \/ \E f \in DOMAIN FamilyMessage : ret[i] = FamilyMessage[f]
    /\ \A i, j \in 1..Len(ret) : ret[i] = ret[j] => i = j
    /\ Recommended(Fallback) => (args.score < 300 /\ ret = <<Fallback>>)

\* C26, as claimed: a family's message is given only when the family's
\* normalized score is below 50, each message at most once, and the fallback
\* only for a score below 300 when no family's message was given, alone.
C26_OnlyBelowNeutral ==
    fn = "generateRecommendations" =>
        /\ MessagesAndFallback
        /\ \A f \in DOMAIN FamilyMessage :
               Recommended(FamilyMessage[f]) => RLt(ScoreOf(f), RI(50))

\* C26, amended: a family's message is given only when the family's trigger
\* holds: merge-rate score below 50; no quality repository; fewer than 5
\* reviews; negative-reactions score below 40; account younger than 30 days;
\* consistency score below 60 for an account of 90 days or more.  Each message
\* is given at most once, and the fallback only for a score below 300 when no
\* family's message was given, alone.
C26_OnlyWhenTriggered ==
    fn = "generateRecommendations" =>
        LET d == args.metricsData
        IN  /\ MessagesAndFallback
            /\ Recommended(FamilyMessage.prMergeRate) =>
                   RLt(ScoreOf("prMergeRate"), RI(50))
            /\ Recommended(FamilyMessage.repoQuality) => d.repoQuality.qualityRepoCount = 0
            /\ Recommended(FamilyMessage.codeReviews) => d.codeReviews.reviewsGiven < 5
            /\ Recommended(FamilyMessage.negativeReactions) =>
                   RLt(ScoreOf("negativeReactions"), RI(40))
            /\ Recommended(FamilyMessage.accountAge) => d.account.ageInDays < 30
            /\ Recommended(FamilyMessage.activityConsistency) =>
                   /\ RLt(ScoreOf("activityConsistency"), RI(60))
                   /\ d.account.ageInDays >= 90

\* no quality repository and a low score: the repository message is given
\* although the repoQuality score is the neutral 50, and no fallback
C26_Witness ==
    /\ fn = "generateRecommendations"
    /\ args.score = 299
    /\ args.metricsData.repoQuality.qualityRepoCount = 0
    /\ ScoreOf("repoQuality") = RI(50)
    /\ Recommended(FamilyMessage.repoQuality)
    /\ ~Recommended(Fallback)

----------------------------------------------------------------------------
(* Activity consistency (SpecMetrics) *)

\* C27: with e = min(totalMonthsInWindow, ceil(ageInDays / 30)) months, the
\* sub-score is 50 when e = 0; otherwise the account summary's
\* consistencyScore, which is the metric's rawValue, is the ratio
\* monthsWithActivity / e, and the sub-score is 100, 85, 70, 55 or 50 for a
\* ratio >= 0.9, >= 0.7, >= 0.5, >= 0.25 or below.
C27_ConsistencyRatio ==
    fn = "calculateActivityConsistencyMetric" =>
        LET d == args.data
            months == (d.ageInDays + 29) \div 30
            e == IF d.totalMonthsInWindow <= months THEN d.totalMonthsInWindow
                 ELSE months
            a == d.monthsWithActivity
            score == ret.normalizedScore
        IN  /\ d.totalMonthsInWindow <= 12
            /\ e = 0 => score = RI(50)
            /\ e > 0 =>
                   /\ ret.rawValue = d.consistencyScore
                   /\ IsQuotient(d.consistencyScore, a, e)
                   /\ 10 * a >= 9 * e => score = RI(100)
                   /\ (10 * a >= 7 * e /\ 10 * a < 9 * e) => score = RI(85)
                   /\ (10 * a >= 5 * e /\ 10 * a < 7 * e) => score = RI(70)
                   /\ (4 * a >= e /\ 10 * a < 5 * e) => score = RI(55)
                   /\ 4 * a < e => score = RI(50)

----------------------------------------------------------------------------
(* Grouping of merged pull requests by repository (SpecRepos) *)

\* the largest element of a non-empty set of numbers
MaxOf(S) == CHOOSE x \in S : \A y \in S : y <= x

\* C28: with the counted pull requests being the merged ones of the window
\* whose repository is not null, extractRepoQualityData returns one entry per
\* owner/name among them, holding the largest star count among the
\* repository's counted pull requests and their number; qualityRepoCount is
\* the number of entries with stars >= minimumStars; so qualityRepoCount <=
\* number of entries <= number of merged pull requests, and the mergedPRCount
\* values sum to the number of counted pull requests.
C28_GroupedByRepository ==
    fn = "extractRepoQualityData" =>
        LET prs == args.data.pullRequests
            merged == { i \in 1..Len(prs) : prs[i].merged }
            counted == { i \in merged : /\ prs[i].mergedAt # Null
                                        /\ prs[i].mergedAt >= args.sinceDate
                                        /\ prs[i].repository # NullRepo }
            Of(owner, name) == { i \in counted : /\ prs[i].repository.owner = owner
                                                 /\ prs[i].repository.name = name }
            repos == ret.contributedRepos
        IN  /\ \A i \in counted :
                   \E k \in 1..Len(repos) : /\ repos[k].owner = prs[i].repository.owner
                                            /\ repos[k].repo = prs[i].repository.name
            /\ \A k, l \in 1..Len(repos) :
                   (repos[k].owner = repos[l].owner /\ repos[k].repo = repos[l].repo)
                       => k = l
            /\ \A k \in 1..Len(repos) :
                   LET of == Of(repos[k].owner, repos[k].repo)
                   IN  /\ of # {}
                       /\ repos[k].mergedPRCount = Cardinality(of)
                       /\ repos[k].stars
                              = MaxOf({ prs[i].repository.stargazerCount : i \in of })
            /\ ret.qualityRepoCount
                   = Cardinality({ k \in 1..Len(repos) : repos[k].stars >= args.minimumStars })
            /\ ret.qualityRepoCount <= Len(repos)
            /\ Len(repos) <= Cardinality(merged)
            /\ SumInts([k \in 1..Len(repos) |-> repos[k].mergedPRCount])
                   = Cardinality(counted)

----------------------------------------------------------------------------
(* Failures while obtaining data (SpecRun) *)

\* the number of times run set the action's outputs
OutputsSet ==
    Cardinality({ i \in 1..Len(ret.events) :
                    ret.events[i] \in {"setWhitelistOutputs", "setActionOutputs"} })

\* C29: when checkOrgMembership or fetchContributorData threw, run has ended
\* with setFailed for the error as its last step, has set no outputs, has
\* computed no score and has made no comment or label call; whatever threw,
\* run ended in its catch block instead of rejecting; and on every path the
\* outputs are set at most once.
C29_NoPartialResult ==
    fn = "run" =>
        /\ ret.threw \in {"checkOrgMembership", "fetchContributorData"} =>
               /\ ret.outputs = <<>>
               /\ OutputsSet = 0
               /\ ~HasEvent("calculateScore")
               /\ ~HasEvent("addPRComment")
               /\ ~HasEvent("addPRLabel")
        /\ (ret.threw # "" \/ args.threw) =>
               /\ ret.pc = "done"
               /\ ret.events[Len(ret.events)] = "setFailed:error"
        /\ OutputsSet <= 1
        /\ Len(ret.outputs) = OutputsSet

\* the author is no member of the trusted organization, and the data fetch
\* threw
C29_Witness ==
    /\ fn = "run"
    /\ ret.threw = "fetchContributorData"
    /\ ret.events = <<"checkOrgMembership", "fetchContributorData", "setFailed:error">>
    /\ ret.outputs = <<>>
    /\ ret.pc = "done"

----------------------------------------------------------------------------
(* Metrics that cannot fall below neutral (SpecMetrics) *)

NeverBelowNeutral ==
    { "calculateRepoQualityMetric", "calculateAccountAgeMetric",
      "calculateActivityConsistencyMetric", "calculateIssueEngagementMetric",
      "calculateCodeReviewMetric" }

====
